---- MODULE Spec2Model ----
(***************************************************************************)
(* A model of the expression compiler: the tokenizer (src/src/lexer), the  *)
(* precedence-climbing parser (src/src/parser/parser.c) and the scope      *)
(* stack of the semantic analyzer (src/src/semantic/semantic.c).           *)
(*                                                                         *)
(* Characters are one-character strings; NUL is the terminating '\0'.      *)
(* C strings are sequences of characters without the terminator.           *)
(***************************************************************************)
EXTENDS Integers, Sequences, FiniteSets, TLC

VARIABLES
    source,      \* Lexer.source of the lexer under test (without its NUL)
    lexer,       \* the Lexer fields: position, line, column, current_char, had_error, last_error
    tok,         \* the token returned by the last lexer_next_token / lexer_peek_token call
    op,          \* the last lexer operation: "create", "next", "peek", "clear"
    eofCalls,    \* history: how many lexer_next_token calls returned TOKEN_EOF (saturating)
    strErr,      \* history: an unterminated string was tokenized and the error not cleared since
    inst,        \* the parser instances: "plain" parses E, "paren" parses (E)
    tables,      \* the heap of SymbolTables: address -> SymbolTable or FreedTable
    analyzer,    \* the SemanticAnalyzer fields
    nextSym,     \* the number of Symbols created so far (the next Symbol's identity)
    semOp,       \* the last analyzer operation: "create", "enter", "exit", "add"
    enterLevels, \* history: the scope level read before each enter_scope not yet exited
    exitedNames, \* history: the names held by the table the last exit_scope destroyed
    surplus,     \* history: how many exit_scope calls were made at depth 0 (saturating)
    typeNode,    \* the ASTNode given to the type functions
    typeOp,      \* the last type operation: "input", "get_type", "analyze", "check"
    typeOut,     \* its result: the DataType or the bool it returned
    gen,         \* the CodeGenerator fields; output_file is the lines written to the file
    genAst,      \* the ASTNode given to the code generator
    genOp,       \* the last code generator operation
    genResult,   \* the CodeGenResult or Register it returned
    genCalls,    \* how many code generator operations were called
    freeSource,  \* the source text of the parser whose tokens are followed
    freeParser,  \* that Parser's fields and those of its Lexer
    freeNode,    \* the ASTNode given to ast_node_free
    freeOp,      \* the last operation: "create", "build", "parse", "node_free", "parser_free"
    obtained,    \* history: the tokens lexer_next_token returned to the parser, in order
    freed,       \* history: the tokens and nodes destroyed so far, in order
    slots        \* history: the stack offset of each declaration generated with success, in order

lexVars == <<source, lexer, tok, op, eofCalls, strErr>>
parVars == <<inst>>
semVars == <<tables, analyzer, nextSym, semOp, enterLevels, exitedNames, surplus>>
typVars == <<typeNode, typeOp, typeOut>>
genVars == <<gen, genAst, genOp, genResult, genCalls>>
memVars == <<freeSource, freeParser, freeNode, freeOp, obtained, freed>>
declVars == <<slots>>
vars == <<source, lexer, tok, op, eofCalls, strErr, inst,
          tables, analyzer, nextSym, semOp, enterLevels, exitedNames, surplus,
          typeNode, typeOp, typeOut, gen, genAst, genOp, genResult, genCalls,
          freeSource, freeParser, freeNode, freeOp, obtained, freed, slots>>

(***************************************************************************)
(* Bounds of the model.                                                    *)
(***************************************************************************)
MaxLen == 3        \* longest source text of the lexer specification
MaxOver == 1       \* bytes past the terminator that an out-of-bounds read can see before a NUL
MaxEofCalls == 2   \* TOKEN_EOF returns counted
MaxCalls == 2      \* parser_parse calls on one parser
MaxSurplus == 2    \* exit_scope calls counted at depth 0
MaxToks == 4       \* longest free-form token sequence given to the parser
MaxChain == 3      \* most operators in an equal-precedence chain
MaxDepth == 3      \* deepest scope nesting
MaxSyms == 3       \* most symbols created
MaxTypeLeaves == 3 \* most leaves of an expression given to the type functions
MaxExprLeaves == 3 \* most literals of an expression given to the code generator
MaxChildren == 2   \* most top-level children of a Program node
MaxGenCalls == 2   \* code generator operations called in a row
MaxDeclCalls == 3  \* operations of the declaration specification called in a row

(***************************************************************************)
(* Characters                                                              *)
(***************************************************************************)
NUL == "NUL"

Lower == {"a","b","c","d","e","f","g","h","i","j","k","l","m",
          "n","o","p","q","r","s","t","u","v","w","x","y","z"}
Digits == {"0","1","2","3","4","5","6","7","8","9"}

isalpha(c) == c \in Lower
isdigit(c) == c \in Digits
isalnum(c) == isalpha(c) \/ isdigit(c)

DigitValue(c) ==
    CASE c = "0" -> 0 [] c = "1" -> 1 [] c = "2" -> 2 [] c = "3" -> 3 [] c = "4" -> 4
      [] c = "5" -> 5 [] c = "6" -> 6 [] c = "7" -> 7 [] c = "8" -> 8 [] c = "9" -> 9

\* atoi on a lexeme: the value of its leading decimal digits
RECURSIVE atoi_from(_, _, _)
atoi_from(s, i, acc) ==
    IF i > Len(s) \/ ~isdigit(s[i]) THEN acc
    ELSE atoi_from(s, i + 1, acc * 10 + DigitValue(s[i]))

atoi(s) == atoi_from(s, 1, 0)

\* atof on a lexeme of digits with at most one '.': the whole part and the
\* fraction digits
atof(s) ==
    LET dots == {i \in 1..Len(s) : s[i] = "."}
        d == IF dots = {} THEN Len(s) + 1 ELSE CHOOSE i \in dots : \A j \in dots : i <= j
    IN [whole |-> atoi(SubSeq(s, 1, d - 1)), frac |-> SubSeq(s, d + 1, Len(s))]

(***************************************************************************)
(* Tokens (token.c)                                                        *)
(***************************************************************************)
ZeroLiteral == [int_value |-> 0, float_value |-> [whole |-> 0, frac |-> <<>>],
                string_value |-> <<>>, char_value |-> NUL]

\* the null Token pointer
NullToken == [type |-> "NULL", lexeme |-> <<>>, line |-> 0, column |-> 0,
              literal |-> ZeroLiteral]

token_create(type, lexeme, line, column) ==
    [type |-> type, lexeme |-> lexeme, line |-> line, column |-> column,
     literal |-> ZeroLiteral]

token_create_with_literal(type, lexeme, line, column) ==
    LET t == token_create(type, lexeme, line, column) IN
    CASE type = "TOKEN_INTEGER_LITERAL" ->
           [t EXCEPT !.literal.int_value = atoi(lexeme)]
      [] type = "TOKEN_FLOAT_LITERAL" ->
           [t EXCEPT !.literal.float_value = atof(lexeme)]
      [] type = "TOKEN_STRING_LITERAL" /\ Len(lexeme) >= 2 ->
           [t EXCEPT !.literal.string_value = SubSeq(lexeme, 2, Len(lexeme) - 1)]
      [] type = "TOKEN_CHAR_LITERAL" /\ Len(lexeme) >= 3 ->
           [t EXCEPT !.literal.char_value = lexeme[2]]
      [] OTHER -> t

keywords ==
    << <<<<"i","n","t">>, "TOKEN_INT">>,
       <<<<"f","l","o","a","t">>, "TOKEN_FLOAT">>,
       <<<<"c","h","a","r">>, "TOKEN_CHAR">>,
       <<<<"b","o","o","l">>, "TOKEN_BOOL">>,
       <<<<"v","o","i","d">>, "TOKEN_VOID">>,
       <<<<"i","f">>, "TOKEN_IF">>,
       <<<<"e","l","s","e">>, "TOKEN_ELSE">>,
       <<<<"w","h","i","l","e">>, "TOKEN_WHILE">>,
       <<<<"f","o","r">>, "TOKEN_FOR">>,
       <<<<"r","e","t","u","r","n">>, "TOKEN_RETURN">>,
       <<<<"b","r","e","a","k">>, "TOKEN_BREAK">>,
       <<<<"c","o","n","t","i","n","u","e">>, "TOKEN_CONTINUE">>,
       <<<<"t","r","u","e">>, "TOKEN_TRUE">>,
       <<<<"f","a","l","s","e">>, "TOKEN_FALSE">>,
       <<<<"n","u","l","l">>, "TOKEN_NULL">> >>

\* the token type of an identifier lexeme: the keyword's, or TOKEN_IDENTIFIER
token_is_keyword(lexeme) ==
    LET hits == {i \in 1..Len(keywords) : keywords[i][1] = lexeme} IN
    IF hits = {} THEN "TOKEN_IDENTIFIER"
    ELSE keywords[CHOOSE i \in hits : \A j \in hits : i <= j][2]

(***************************************************************************)
(* Errors (common.c)                                                       *)
(***************************************************************************)
\* the null Error pointer
NullError == [code |-> "NULL", message |-> "", line |-> 0, column |-> 0]

error_create(code, message, line, column) ==
    [code |-> code, message |-> message, line |-> line, column |-> column]

(***************************************************************************)
(* The lexer (lexer.c).  The lexer reads memory: the source, its NUL, and, *)
(* when the cursor has moved past the NUL, whatever bytes follow the       *)
(* buffer.  Those bytes are not the program's: each call sees a choice g   *)
(* of them.                                                                *)
(***************************************************************************)
GarbageChars == {NUL, "\"", "a"}
Garbage == [1..MaxOver -> GarbageChars]

Memory(src, g) == src \o <<NUL>> \o g

\* source[i], 0-based; a NUL far enough past the buffer
CharAt(mem, i) == IF i + 1 <= Len(mem) THEN mem[i + 1] ELSE NUL

lexer_create(src) ==
    [position |-> 0, line |-> 1, column |-> 1,
     current_char |-> IF Len(src) > 0 THEN src[1] ELSE NUL,
     had_error |-> FALSE, last_error |-> NullError]

\* advance without the newline case: the column always grows, the line never
advance_same_line(mem, L) ==
    [L EXCEPT !.column = @ + 1,
              !.position = @ + 1,
              !.current_char = CharAt(mem, L.position + 1)]

advance(mem, L) ==
    [L EXCEPT !.line = IF L.current_char = "\n" THEN @ + 1 ELSE @,
              !.column = IF L.current_char = "\n" THEN 1 ELSE @ + 1,
              !.position = @ + 1,
              !.current_char = CharAt(mem, L.position + 1)]

peek(mem, L) == CharAt(mem, L.position + 1)

RECURSIVE skip_whitespace(_, _)
skip_whitespace(mem, L) ==
    IF L.current_char # NUL /\ L.current_char \in {" ", "\t", "\r"}
    THEN skip_whitespace(mem, advance(mem, L))
    ELSE L

RECURSIVE read_identifier_loop(_, _, _)
read_identifier_loop(mem, L, buffer) ==
    IF L.current_char # NUL /\ (isalnum(L.current_char) \/ L.current_char = "_")
    THEN read_identifier_loop(mem, advance(mem, L), Append(buffer, L.current_char))
    ELSE [lexer |-> L, buffer |-> buffer]

read_identifier(mem, L) ==
    LET r == read_identifier_loop(mem, L, <<>>) IN
    [lexer |-> r.lexer,
     token |-> token_create(token_is_keyword(r.buffer), r.buffer, L.line, L.column)]

RECURSIVE read_number_loop(_, _, _, _)
read_number_loop(mem, L, buffer, has_decimal) ==
    IF L.current_char = NUL THEN [lexer |-> L, buffer |-> buffer, has_decimal |-> has_decimal]
    ELSE IF isdigit(L.current_char)
    THEN read_number_loop(mem, advance(mem, L), Append(buffer, L.current_char), has_decimal)
    ELSE IF L.current_char = "." /\ ~has_decimal
    THEN read_number_loop(mem, advance(mem, L), Append(buffer, L.current_char), TRUE)
    ELSE [lexer |-> L, buffer |-> buffer, has_decimal |-> has_decimal]

read_number(mem, L) ==
    LET r == read_number_loop(mem, L, <<>>, FALSE) IN
    [lexer |-> r.lexer,
     token |-> token_create_with_literal(
                  IF r.has_decimal THEN "TOKEN_FLOAT_LITERAL" ELSE "TOKEN_INTEGER_LITERAL",
                  r.buffer, L.line, L.column)]

\* the character an escape sequence \c stands for in a string literal
string_escape(c) ==
    CASE c = "n" -> "\n" [] c = "t" -> "\t" [] c = "r" -> "\r" [] OTHER -> c

RECURSIVE read_string_loop(_, _, _)
read_string_loop(mem, L, buffer) ==
    IF L.current_char # NUL /\ L.current_char # "\""
    THEN IF L.current_char = "\\"
         THEN LET L1 == advance(mem, L) IN       \* consume backslash
              IF L1.current_char # NUL
              THEN read_string_loop(mem, advance(mem, L1),
                                    Append(buffer, string_escape(L1.current_char)))
              ELSE read_string_loop(mem, advance(mem, L1), buffer)
         ELSE read_string_loop(mem, advance(mem, L), Append(buffer, L.current_char))
    ELSE [lexer |-> L, buffer |-> buffer]

read_string(mem, L) ==
    LET r == read_string_loop(mem, advance(mem, L), <<>>)
        L2 == IF r.lexer.current_char = "\""
              THEN advance(mem, r.lexer)
              ELSE [r.lexer EXCEPT
                       !.had_error = TRUE,
                       !.last_error = error_create("ERROR_LEXICAL",
                                         "Unterminated string literal", L.line, L.column)]
        lexeme == <<"\"">> \o r.buffer \o <<"\"">>
    IN [lexer |-> L2,
        token |-> [token_create_with_literal("TOKEN_STRING_LITERAL", lexeme, L.line, L.column)
                     EXCEPT !.literal.string_value = r.buffer]]

\* the character an escape sequence \c stands for in a character literal
char_escape(c) ==
    CASE c = "n" -> "\n" [] c = "t" -> "\t" [] c = "r" -> "\r" [] OTHER -> c

read_char(mem, L) ==
    LET L1 == advance(mem, L)                     \* consume opening quote
        unterminated(Lx) ==
            [lexer |-> [Lx EXCEPT
                          !.had_error = TRUE,
                          !.last_error = error_create("ERROR_LEXICAL",
                                            "Unterminated character literal", L.line, L.column)],
             token |-> token_create("TOKEN_UNKNOWN", <<"'">>, L.line, L.column)]
    IN IF L1.current_char = NUL THEN unterminated(L1)
       ELSE LET L2 == IF L1.current_char = "\\" THEN advance(mem, L1) ELSE L1
                content == IF L1.current_char = "\\"
                           THEN IF L2.current_char # NUL THEN char_escape(L2.current_char)
                                ELSE NUL
                           ELSE L1.current_char
                L3 == advance(mem, L2)            \* consume character content
            IN IF L3.current_char = "'"
               THEN LET lexeme == IF content = NUL THEN <<"'">> ELSE <<"'", content, "'">>
                        t == token_create_with_literal("TOKEN_CHAR_LITERAL", lexeme,
                                                       L.line, L.column)
                    IN [lexer |-> advance(mem, L3),
                        token |-> [t EXCEPT !.literal.char_value = content]]
               ELSE unterminated(L3)

\* the two-character operators: first character, second character, type
TwoCharOps ==
    { <<"=", "=", "TOKEN_EQUAL">>, <<"!", "=", "TOKEN_NOT_EQUAL">>,
      <<"&", "&", "TOKEN_LOGICAL_AND">>, <<"|", "|", "TOKEN_LOGICAL_OR">>,
      <<"+", "+", "TOKEN_INCREMENT">>, <<"-", "-", "TOKEN_DECREMENT">>,
      <<"<", "=", "TOKEN_LESS_EQUAL">>, <<"<", "<", "TOKEN_LEFT_SHIFT">>,
      <<">", "=", "TOKEN_GREATER_EQUAL">>, <<">", ">", "TOKEN_RIGHT_SHIFT">> }

OneCharType(c) ==
    CASE c = "=" -> "TOKEN_ASSIGN" [] c = "!" -> "TOKEN_LOGICAL_NOT"
      [] c = "&" -> "TOKEN_BITWISE_AND" [] c = "|" -> "TOKEN_BITWISE_OR"
      [] c = "^" -> "TOKEN_BITWISE_XOR" [] c = "~" -> "TOKEN_BITWISE_NOT"
      [] c = "+" -> "TOKEN_PLUS" [] c = "-" -> "TOKEN_MINUS"
      [] c = "<" -> "TOKEN_LESS" [] c = ">" -> "TOKEN_GREATER"
      [] c = "*" -> "TOKEN_MULTIPLY" [] c = "/" -> "TOKEN_DIVIDE"
      [] c = "%" -> "TOKEN_MODULO" [] c = "(" -> "TOKEN_LEFT_PAREN"
      [] c = ")" -> "TOKEN_RIGHT_PAREN" [] c = "{" -> "TOKEN_LEFT_BRACE"
      [] c = "}" -> "TOKEN_RIGHT_BRACE" [] c = "[" -> "TOKEN_LEFT_BRACKET"
      [] c = "]" -> "TOKEN_RIGHT_BRACKET" [] c = ";" -> "TOKEN_SEMICOLON"
      [] c = "," -> "TOKEN_COMMA" [] c = "." -> "TOKEN_DOT"
      [] c = ":" -> "TOKEN_COLON" [] c = "?" -> "TOKEN_QUESTION"
      [] c = "\n" -> "TOKEN_NEWLINE"
      [] OTHER -> "TOKEN_UNKNOWN"

read_operator(mem, L) ==
    LET current == L.current_char
        next == peek(mem, L)
        two == {o \in TwoCharOps : o[1] = current /\ o[2] = next}
    IN IF two # {}
       THEN [lexer |-> advance(mem, advance(mem, L)),
             token |-> token_create((CHOOSE o \in two : TRUE)[3], <<current, next>>,
                                    L.line, L.column)]
       ELSE [lexer |-> advance(mem, L),
             token |-> token_create(OneCharType(current), <<current>>, L.line, L.column)]

\* a plausible slip: the cursor stepped over the terminator when reporting the end
lexer_eof_advancing(mem, L) ==
    [lexer |-> advance(mem, L),
     token |-> token_create("TOKEN_EOF", <<>>, L.line, L.column)]

\* return token_create(TOKEN_EOF, "", lexer->line, lexer->column), the cursor left alone
lexer_eof(mem, L) ==
    [lexer |-> L, token |-> token_create("TOKEN_EOF", <<>>, L.line, L.column)]

lexer_next_token(mem, L) ==
    IF L.current_char = NUL
    THEN lexer_eof(mem, L)
    ELSE LET L1 == skip_whitespace(mem, L) IN
         IF L1.current_char = "\n"
         THEN [lexer |-> advance(mem, L1),
               token |-> token_create("TOKEN_NEWLINE", <<"\n">>, L1.line, L1.column)]
         ELSE IF L1.current_char = NUL
         THEN lexer_eof(mem, L1)
         ELSE IF isalpha(L1.current_char) \/ L1.current_char = "_"
         THEN read_identifier(mem, L1)
         ELSE IF isdigit(L1.current_char) THEN read_number(mem, L1)
         ELSE IF L1.current_char = "\"" THEN read_string(mem, L1)
         ELSE IF L1.current_char = "'" THEN read_char(mem, L1)
         ELSE read_operator(mem, L1)

lexer_peek_token(mem, L) ==
    LET r == lexer_next_token(mem, L) IN
    [lexer |-> [r.lexer EXCEPT !.position = L.position, !.line = L.line,
                               !.column = L.column, !.current_char = L.current_char],
     token |-> r.token]

lexer_clear_error(L) == [L EXCEPT !.had_error = FALSE, !.last_error = NullError]

(***************************************************************************)
(* The AST (parser.c, parser.h).  A node's union payload is the record     *)
(* literal / identifier_name / left, right, operator of its kind.          *)
(***************************************************************************)
\* the null ASTNode pointer
NullNode == [type |-> "NULL"]

ast_node_create(type, token) ==
    [type |-> type, token |-> token, line |-> token.line, column |-> token.column]

ast_node_create_binary(token, left, right, operator) ==
    [type |-> "NODE_BINARY_EXPRESSION", token |-> token,
     line |-> token.line, column |-> token.column,
     left |-> left, right |-> right, operator |-> operator]

ast_node_create_literal_int(token, value) ==
    [type |-> "NODE_LITERAL", token |-> token, line |-> token.line, column |-> token.column,
     literal |-> [ZeroLiteral EXCEPT !.int_value = value]]

ast_node_create_literal_float(token, value) ==
    [type |-> "NODE_LITERAL", token |-> token, line |-> token.line, column |-> token.column,
     literal |-> [ZeroLiteral EXCEPT !.float_value = value]]

ast_node_create_literal_string(token, value) ==
    [type |-> "NODE_LITERAL", token |-> token, line |-> token.line, column |-> token.column,
     literal |-> [ZeroLiteral EXCEPT !.string_value = value]]

ast_node_create_identifier(token, name) ==
    [type |-> "NODE_IDENTIFIER", token |-> token, line |-> token.line, column |-> token.column,
     identifier_name |-> name]

(***************************************************************************)
(* The parser (parser.c).  A parser state S is the Parser's fields and the *)
(* fields of the Lexer it points to.                                       *)
(***************************************************************************)
parser_create(L) ==
    [lexer |-> L, current_token |-> NullToken, peek_token |-> NullToken,
     had_error |-> FALSE, last_error |-> NullError]

\* parser->current_token = lexer_next_token(parser->lexer)
parser_advance(mem, S) ==
    LET r == lexer_next_token(mem, S.lexer) IN
    [S EXCEPT !.lexer = r.lexer, !.current_token = r.token]

parser_is_binary_operator(type) ==
    type \in {"TOKEN_PLUS", "TOKEN_MINUS", "TOKEN_MULTIPLY", "TOKEN_DIVIDE", "TOKEN_MODULO",
              "TOKEN_EQUAL", "TOKEN_NOT_EQUAL", "TOKEN_LESS", "TOKEN_LESS_EQUAL",
              "TOKEN_GREATER", "TOKEN_GREATER_EQUAL", "TOKEN_LOGICAL_AND",
              "TOKEN_LOGICAL_OR", "TOKEN_BITWISE_AND", "TOKEN_BITWISE_OR",
              "TOKEN_BITWISE_XOR", "TOKEN_LEFT_SHIFT", "TOKEN_RIGHT_SHIFT"}

\* a plausible slip: additive and multiplicative operators on one level
parser_get_precedence_flat(type) ==
    CASE type = "TOKEN_ASSIGN" -> 1
      [] type = "TOKEN_LOGICAL_OR" -> 2
      [] type = "TOKEN_LOGICAL_AND" -> 3
      [] type \in {"TOKEN_EQUAL", "TOKEN_NOT_EQUAL"} -> 4
      [] type \in {"TOKEN_LESS", "TOKEN_LESS_EQUAL", "TOKEN_GREATER",
                   "TOKEN_GREATER_EQUAL"} -> 5
      [] type \in {"TOKEN_PLUS", "TOKEN_MINUS", "TOKEN_MULTIPLY", "TOKEN_DIVIDE",
                   "TOKEN_MODULO"} -> 6
      [] type \in {"TOKEN_LEFT_SHIFT", "TOKEN_RIGHT_SHIFT"} -> 8
      [] type = "TOKEN_BITWISE_AND" -> 9
      [] type = "TOKEN_BITWISE_XOR" -> 10
      [] type = "TOKEN_BITWISE_OR" -> 11
      [] OTHER -> 0

parser_get_precedence(type) ==
    CASE type = "TOKEN_ASSIGN" -> 1
      [] type = "TOKEN_LOGICAL_OR" -> 2
      [] type = "TOKEN_LOGICAL_AND" -> 3
      [] type \in {"TOKEN_EQUAL", "TOKEN_NOT_EQUAL"} -> 4
      [] type \in {"TOKEN_LESS", "TOKEN_LESS_EQUAL", "TOKEN_GREATER",
                   "TOKEN_GREATER_EQUAL"} -> 5
      [] type \in {"TOKEN_PLUS", "TOKEN_MINUS"} -> 6
      [] type \in {"TOKEN_MULTIPLY", "TOKEN_DIVIDE", "TOKEN_MODULO"} -> 7
      [] type \in {"TOKEN_LEFT_SHIFT", "TOKEN_RIGHT_SHIFT"} -> 8
      [] type = "TOKEN_BITWISE_AND" -> 9
      [] type = "TOKEN_BITWISE_XOR" -> 10
      [] type = "TOKEN_BITWISE_OR" -> 11
      [] OTHER -> 0

\* a plausible slip: the right-hand side parsed at the operator's own level
rhs_precedence_same(token_precedence) == token_precedence

\* the threshold of the recursive call for the right-hand side
rhs_precedence(token_precedence) == token_precedence + 1

RECURSIVE parser_parse_expression_precedence(_, _, _)
RECURSIVE parser_parse_primary(_, _)
RECURSIVE parser_binary_loop(_, _, _, _)

parser_parse_expression(mem, S) ==
    IF S.current_token.type = "NULL"
    THEN [s |-> S, node |-> ast_node_create("NODE_ERROR", NullToken)]
    ELSE parser_parse_expression_precedence(mem, S, 1)

\* parser_parse_primary after the parenthesized expression r was parsed:
\* expect and consume ')'
parser_close_paren(mem, r) ==
    LET closing_paren == r.s.current_token IN
    IF r.node.type \in {"NULL", "NODE_ERROR"} THEN r
    ELSE IF closing_paren.type # "TOKEN_RIGHT_PAREN"
    THEN [s |-> [r.s EXCEPT
                   !.had_error = TRUE,
                   !.last_error = error_create("ERROR_SYNTAX",
                                     "Expected closing parenthesis",
                                     closing_paren.line, closing_paren.column)],
          node |-> ast_node_create("NODE_ERROR", closing_paren)]
    ELSE [s |-> parser_advance(mem, r.s), node |-> r.node]

\* the switch of parser_parse_primary on the current token; advanced is the
\* parser after parser->current_token = lexer_next_token(parser->lexer)
parser_primary_switch(S, advanced) ==
    LET token == S.current_token IN
    IF token.type = "TOKEN_INTEGER_LITERAL"
    THEN [s |-> advanced,
          node |-> ast_node_create_literal_int(token, token.literal.int_value)]
    ELSE IF token.type = "TOKEN_FLOAT_LITERAL"
    THEN [s |-> advanced,
          node |-> ast_node_create_literal_float(token, token.literal.float_value)]
    ELSE IF token.type = "TOKEN_STRING_LITERAL"
    THEN [s |-> advanced,
          node |-> ast_node_create_literal_string(token, token.literal.string_value)]
    ELSE IF token.type = "TOKEN_IDENTIFIER"
    THEN [s |-> advanced, node |-> ast_node_create_identifier(token, token.lexeme)]
    ELSE IF token.type = "TOKEN_TRUE"
    THEN [s |-> advanced, node |-> ast_node_create_literal_int(token, 1)]
    ELSE IF token.type = "TOKEN_FALSE"
    THEN [s |-> advanced, node |-> ast_node_create_literal_int(token, 0)]
    ELSE [s |-> [S EXCEPT
                   !.had_error = TRUE,
                   !.last_error = error_create("ERROR_SYNTAX",
                                     "Unexpected token in expression",
                                     token.line, token.column)],
          node |-> ast_node_create("NODE_ERROR", token)]

\* advanced is the parser after consuming the current token
parser_primary_dispatch(mem, S, advanced) ==
    IF S.current_token.type = "TOKEN_LEFT_PAREN"
    THEN parser_close_paren(mem, parser_parse_expression(mem, advanced))
    ELSE parser_primary_switch(S, advanced)

parser_parse_primary(mem, S) ==
    IF S.current_token.type = "NULL"
    THEN [s |-> S, node |-> ast_node_create("NODE_ERROR", NullToken)]
    ELSE parser_primary_dispatch(mem, S, parser_advance(mem, S))

\* the end of one round of the loop: r is the parsed right-hand side
parser_fold_binary(mem, r, op_token, left, precedence) ==
    IF r.node.type \in {"NULL", "NODE_ERROR"} THEN r
    ELSE parser_binary_loop(mem, r.s,
             ast_node_create_binary(op_token, left, r.node, op_token.lexeme),
             precedence)

\* the while (true) loop of parser_parse_expression_precedence
parser_binary_loop(mem, S, left, precedence) ==
    LET token == S.current_token
        token_precedence == parser_get_precedence(token.type)
    IN IF token.type = "NULL" \/ ~parser_is_binary_operator(token.type)
       THEN [s |-> S, node |-> left]
       ELSE IF token_precedence < precedence
       THEN [s |-> S, node |-> left]
       ELSE parser_fold_binary(mem,
                parser_parse_expression_precedence(mem, parser_advance(mem, S),
                                                   rhs_precedence(token_precedence)),
                token, left, precedence)

\* parser_parse_expression_precedence after its primary r was parsed
parser_after_primary(mem, r, precedence) ==
    IF r.node.type \in {"NULL", "NODE_ERROR"} THEN r
    ELSE parser_binary_loop(mem, r.s, r.node, precedence)

parser_parse_expression_precedence(mem, S, precedence) ==
    IF S.current_token.type = "NULL"
    THEN [s |-> S, node |-> ast_node_create("NODE_ERROR", NullToken)]
    ELSE parser_after_primary(mem, parser_parse_primary(mem, S), precedence)

\* parser_parse once the first token is there
parser_parse_started(mem, S) ==
    IF S.current_token.type \in {"NULL", "TOKEN_EOF"}
    THEN [s |-> S, node |-> ast_node_create("NODE_ERROR", NullToken)]
    ELSE parser_parse_expression(mem, S)

parser_parse(mem, S) ==
    parser_parse_started(mem,
        IF S.current_token.type = "NULL" THEN parser_advance(mem, S) ELSE S)

parser_had_error(S) == S.had_error

parser_get_last_error(S) == S.last_error

(***************************************************************************)
(* Destruction (token.c, parser.c).  A destroying function is the sequence *)
(* of objects it frees: Destroyed(what, at, token) is the token or node    *)
(* freed, `at` the path of the node from the root given to ast_node_free   *)
(* (child 1 is the left operand or the operand, child 2 the right one).    *)
(***************************************************************************)
Destroyed(what, at, token) == [what |-> what, at |-> at, token |-> token]

token_free(token, at) ==
    IF token.type = "NULL" THEN <<>> ELSE <<Destroyed("token", at, token)>>

RECURSIVE ast_node_free(_, _)
\* the switch of ast_node_free on the node type: the children it frees
ast_node_free_children(node, at) ==
    IF node.type = "NODE_BINARY_EXPRESSION"
    THEN ast_node_free(node.left, at \o <<1>>) \o ast_node_free(node.right, at \o <<2>>)
    ELSE IF node.type = "NODE_UNARY_EXPRESSION"
    THEN ast_node_free(node.operand, at \o <<1>>)
    ELSE <<>>

ast_node_free(node, at) ==
    IF node.type = "NULL" THEN <<>>
    ELSE ast_node_free_children(node, at)
         \o token_free(node.token, at) \o <<Destroyed("node", at, node.token)>>

parser_free(S) == token_free(S.current_token, <<>>) \o token_free(S.peek_token, <<>>)

(***************************************************************************)
(* Symbol tables and the scope stack (semantic.c).  SymbolTables live on a *)
(* heap of addresses 0..MaxDepth; NullAddr is the null pointer.            *)
(***************************************************************************)
NullAddr == -1
Addrs == 0..MaxDepth

\* the null Symbol pointer
NullSymbol == [name |-> "", type |-> "NULL", type_name |-> "", is_mutable |-> FALSE,
               scope_level |-> 0, uid |-> -1]

\* freed memory: no table is there
FreedTable == [alive |-> FALSE, symbols |-> <<>>, capacity |-> 0,
               parent |-> NullAddr, scope_level |-> 0]

symbol_table_create(scope_level) ==
    [alive |-> TRUE, symbols |-> <<>>, capacity |-> 16,
     parent |-> NullAddr, scope_level |-> scope_level]

\* uid is the Symbol's address: what tells two Symbols of one name apart
symbol_create_variable(name, type_name, is_mutable, uid) ==
    [name |-> name, type |-> "SYMBOL_VARIABLE", type_name |-> type_name,
     is_mutable |-> is_mutable, scope_level |-> 0, uid |-> uid]

symbol_table_add(T, table, symbol) ==
    [T EXCEPT ![table].capacity = IF Len(T[table].symbols) >= @ THEN @ * 2 ELSE @,
              ![table].symbols = Append(@, symbol)]

\* a scan that keeps the last match instead of returning at the first
symbol_table_lookup_local_last(T, table, name) ==
    IF table = NullAddr THEN NullSymbol
    ELSE LET hits == {i \in 1..Len(T[table].symbols) : T[table].symbols[i].name = name} IN
         IF hits = {} THEN NullSymbol
         ELSE T[table].symbols[CHOOSE i \in hits : \A j \in hits : i >= j]

symbol_table_lookup_local(T, table, name) ==
    IF table = NullAddr THEN NullSymbol
    ELSE LET hits == {i \in 1..Len(T[table].symbols) : T[table].symbols[i].name = name} IN
         IF hits = {} THEN NullSymbol
         ELSE T[table].symbols[CHOOSE i \in hits : \A j \in hits : i <= j]

RECURSIVE symbol_table_lookup(_, _, _)
\* a lookup that never climbs to the parent table
symbol_table_lookup_no_parent(T, table, name) == NullSymbol

symbol_table_lookup_global(T, table, name) ==
    IF table = NullAddr THEN NullSymbol
    ELSE IF T[table].parent = NullAddr THEN NullSymbol
    ELSE symbol_table_lookup(T, T[table].parent, name)

symbol_table_lookup(T, table, name) ==
    IF table = NullAddr THEN NullSymbol
    ELSE LET found == symbol_table_lookup_local(T, table, name) IN
         IF found.type # "NULL" THEN found
         ELSE symbol_table_lookup_global(T, table, name)

\* malloc: an address that holds no live table
malloc_table(T) == CHOOSE a \in Addrs : ~T[a].alive /\ \A b \in Addrs : ~T[b].alive => a <= b

semantic_analyzer_create ==
    [analyzer |-> [current_scope |-> 0, scope_stack |-> <<0>>, scope_stack_size |-> 1,
                   scope_stack_capacity |-> 16, had_error |-> FALSE,
                   last_error |-> NullError],
     tables |-> [a \in Addrs |-> IF a = 0 THEN symbol_table_create(0) ELSE FreedTable]]

\* enter_scope with the parent link forgotten
semantic_analyzer_enter_scope_orphan(A, T) ==
    LET new_scope == malloc_table(T)
        table == symbol_table_create(T[A.current_scope].scope_level + 1)
    IN [analyzer |-> [A EXCEPT
                        !.scope_stack =
                            IF A.scope_stack_size < Len(@)
                            THEN [@ EXCEPT ![A.scope_stack_size + 1] = new_scope]
                            ELSE Append(@, new_scope),
                        !.scope_stack_size = @ + 1,
                        !.current_scope = new_scope],
        tables |-> [T EXCEPT ![new_scope] = table]]

\* scope_stack is the array's written slots; those past scope_stack_size are stale
semantic_analyzer_enter_scope(A, T) ==
    LET new_scope == malloc_table(T)
        table == [symbol_table_create(T[A.current_scope].scope_level + 1)
                    EXCEPT !.parent = A.current_scope]
    IN [analyzer |-> [A EXCEPT
                        !.scope_stack_capacity =
                            IF A.scope_stack_size >= @ THEN @ * 2 ELSE @,
                        !.scope_stack =
                            IF A.scope_stack_size < Len(@)
                            THEN [@ EXCEPT ![A.scope_stack_size + 1] = new_scope]
                            ELSE Append(@, new_scope),
                        !.scope_stack_size = @ + 1,
                        !.current_scope = new_scope],
        tables |-> [T EXCEPT ![new_scope] = table]]

\* exit_scope with the depth-0 guard off by one: it pops the global scope
semantic_analyzer_exit_scope_unguarded(A, T) ==
    IF A.scope_stack_size <= 0 THEN [analyzer |-> A, tables |-> T]
    ELSE [analyzer |-> [A EXCEPT
                          !.scope_stack_size = @ - 1,
                          !.current_scope =
                              IF A.scope_stack_size - 1 >= 1
                              THEN A.scope_stack[A.scope_stack_size - 1]
                              ELSE NullAddr],
          tables |-> [T EXCEPT ![A.current_scope] = FreedTable]]

semantic_analyzer_exit_scope(A, T) ==
    IF A.scope_stack_size <= 1 THEN [analyzer |-> A, tables |-> T]
    ELSE [analyzer |-> [A EXCEPT
                          !.scope_stack_size = @ - 1,
                          !.current_scope = A.scope_stack[A.scope_stack_size - 1]],
          tables |-> [T EXCEPT ![A.current_scope] = FreedTable]]

semantic_analyzer_current_scope(A) == A.current_scope

(***************************************************************************)
(* The lexer specification: one lexer over a source text, driven by any    *)
(* sequence of lexer_next_token, lexer_peek_token and lexer_clear_error.   *)
(***************************************************************************)
LexAlphabet == {" ", "\n", "a", "1", "\"", "\\", "'", "="}
LexSources == UNION {[1..n -> LexAlphabet] : n \in 0..MaxLen}

\* whether a string literal whose text starts at src[i] (1-based, after the
\* opening quote) is closed by a quote inside the source
RECURSIVE ClosedFrom(_, _)
ClosedFrom(src, i) ==
    IF i > Len(src) THEN FALSE
    ELSE IF src[i] = "\"" THEN TRUE
    ELSE IF src[i] = "\\" THEN ClosedFrom(src, i + 2)
    ELSE ClosedFrom(src, i + 1)

\* the 1-based index of the first character at or after i that is no blank
RECURSIVE SkipBlanks(_, _)
SkipBlanks(src, i) ==
    IF i <= Len(src) /\ src[i] \in {" ", "\t", "\r"} THEN SkipBlanks(src, i + 1) ELSE i

\* the next token of the source is a string literal that is never closed
StartsUnterminatedString(src, L) ==
    /\ L.position < Len(src)
    /\ LET i == SkipBlanks(src, L.position + 1) IN
       i <= Len(src) /\ src[i] = "\"" /\ ~ClosedFrom(src, i + 1)

IdleLex ==
    /\ source = <<>>
    /\ lexer = lexer_create(<<>>)
    /\ tok = NullToken
    /\ op = "idle"
    /\ eofCalls = 0
    /\ strErr = FALSE

InitLexer ==
    /\ source \in LexSources
    /\ lexer = lexer_create(source)
    /\ tok = NullToken
    /\ op = "create"
    /\ eofCalls = 0
    /\ strErr = FALSE

LexerNextToken ==
    \E g \in Garbage :
        LET r == lexer_next_token(Memory(source, g), lexer) IN
        /\ lexer' = r.lexer
        /\ tok' = r.token
        /\ op' = "next"
        /\ eofCalls' = IF r.token.type = "TOKEN_EOF" /\ eofCalls < MaxEofCalls
                       THEN eofCalls + 1 ELSE eofCalls
        /\ strErr' = (strErr \/ StartsUnterminatedString(source, lexer))
        /\ UNCHANGED source

LexerPeekToken ==
    \E g \in Garbage :
        LET r == lexer_peek_token(Memory(source, g), lexer) IN
        /\ lexer' = r.lexer
        /\ tok' = r.token
        /\ op' = "peek"
        /\ UNCHANGED <<source, eofCalls, strErr>>

LexerClearError ==
    /\ lexer' = lexer_clear_error(lexer)
    /\ op' = "clear"
    /\ strErr' = FALSE
    /\ UNCHANGED <<source, tok, eofCalls>>

(***************************************************************************)
(* The parser specification: a fresh parser over the text E and a fresh    *)
(* parser over the text (E), each called up to MaxCalls times.             *)
(***************************************************************************)
\* the operators of the precedence table: lexeme, precedence
OperatorTable ==
    { << <<"=">>, 1 >>, << <<"|","|">>, 2 >>, << <<"&","&">>, 3 >>,
      << <<"=","=">>, 4 >>, << <<"!","=">>, 4 >>,
      << <<"<">>, 5 >>, << <<"<","=">>, 5 >>, << <<">">>, 5 >>, << <<">","=">>, 5 >>,
      << <<"+">>, 6 >>, << <<"-">>, 6 >>,
      << <<"*">>, 7 >>, << <<"/">>, 7 >>, << <<"%">>, 7 >>,
      << <<"<","<">>, 8 >>, << <<">",">">>, 8 >>,
      << <<"&">>, 9 >>, << <<"^">>, 10 >>, << <<"|">>, 11 >> }

OperatorLexemes == {o[1] : o \in OperatorTable}
TablePrecedence(lexeme) == (CHOOSE o \in OperatorTable : o[1] = lexeme)[2]

\* assignment is the table's one entry that is no binary operator: it makes an
\* assignment expression, not a BinaryExpression
BinaryLexemes == OperatorLexemes \ {<<"=">>}

\* the token texts of free-form inputs
GeneralItems == {<<"x">>, <<"+">>, <<"*">>, <<"=">>, <<"(">>, <<")">>}
GeneralInputs == UNION {[1..n -> GeneralItems] : n \in 0..MaxToks}

\* a OP1 b OP2 c
PrecedenceInputs ==
    {<< <<"a">>, o1, <<"b">>, o2, <<"c">> >> : o1 \in OperatorLexemes, o2 \in OperatorLexemes}

\* 1 OP 2 OP 3 ... with the operators ops
RECURSIVE ChainOf(_, _)
ChainOf(ops, k) ==
    IF k > Len(ops) THEN <<>>
    ELSE <<ops[k], <<CHOOSE d \in Digits : DigitValue(d) = k + 1>> >> \o ChainOf(ops, k + 1)

ChainInputs ==
    { <<<<"1">>>> \o ChainOf(ops, 1) :
        ops \in UNION { [1..n -> {l \in OperatorLexemes : TablePrecedence(l) = p}] :
                          n \in 1..MaxChain, p \in 1..11 } }

AssignmentInputs ==
    { << <<"x">>, <<"=">>, <<"1","0">> >>,
      << <<"x">>, <<"=">>, <<"y">>, <<"=">>, <<"1","0">> >> }

\* the source text of a token sequence: the tokens, one blank between two
RECURSIVE Join(_)
Join(items) ==
    IF Len(items) = 0 THEN <<>>
    ELSE IF Len(items) = 1 THEN items[1]
    ELSE items[1] \o <<" ">> \o Join(Tail(items))

Instances == {"plain", "paren"}

NewInstance(items, src) ==
    [items |-> items, source |-> src, s |-> parser_create(lexer_create(src)),
     node |-> NullNode, calls |-> 0]

IdleParser == inst = <<>>

\* the two parsers of a token sequence, before any call
NewInstances(items) ==
    [i \in Instances |->
        IF i = "plain" THEN NewInstance(items, Join(items))
        ELSE NewInstance(items, <<"(">> \o Join(items) \o <<")">>)]

InitParser ==
    \/ \E items \in GeneralInputs : inst = NewInstances(items)
    \/ \E items \in PrecedenceInputs : inst = NewInstances(items)
    \/ \E items \in ChainInputs : inst = NewInstances(items)
    \/ \E items \in AssignmentInputs : inst = NewInstances(items)

ParserParse(i) ==
    /\ inst[i].calls < MaxCalls
    /\ \E g \in Garbage :
          LET r == parser_parse(Memory(inst[i].source, g), inst[i].s) IN
          inst' = [inst EXCEPT ![i].s = r.s, ![i].node = r.node, ![i].calls = @ + 1]

(***************************************************************************)
(* The scope specification: one analyzer driven by any sequence of         *)
(* enter_scope, exit_scope and symbol_table_add on the current scope.      *)
(***************************************************************************)
Names == {"count", "local"}

IdleSemantic ==
    /\ tables = <<>>
    /\ analyzer = <<>>
    /\ nextSym = 0
    /\ semOp = "idle"
    /\ enterLevels = <<>>
    /\ exitedNames = {}
    /\ surplus = 0

InitSemantic ==
    /\ tables = semantic_analyzer_create.tables
    /\ analyzer = semantic_analyzer_create.analyzer
    /\ nextSym = 0
    /\ semOp = "create"
    /\ enterLevels = <<>>
    /\ exitedNames = {}
    /\ surplus = 0

TableNames(T, table) == {T[table].symbols[k].name : k \in 1..Len(T[table].symbols)}

SemanticEnterScope ==
    /\ analyzer.scope_stack_size <= MaxDepth
    /\ LET r == semantic_analyzer_enter_scope(analyzer, tables) IN
       /\ analyzer' = r.analyzer
       /\ tables' = r.tables
    /\ semOp' = "enter"
    /\ enterLevels' = <<tables[analyzer.current_scope].scope_level>> \o enterLevels
    /\ UNCHANGED <<nextSym, exitedNames, surplus>>

SemanticExitScope ==
    /\ analyzer.scope_stack_size > 1 \/ surplus < MaxSurplus
    /\ LET r == semantic_analyzer_exit_scope(analyzer, tables) IN
       /\ analyzer' = r.analyzer
       /\ tables' = r.tables
    /\ semOp' = "exit"
    /\ IF analyzer.scope_stack_size > 1
       THEN /\ enterLevels' = Tail(enterLevels)
            /\ exitedNames' = TableNames(tables, analyzer.current_scope)
            /\ UNCHANGED surplus
       ELSE /\ surplus' = surplus + 1
            /\ exitedNames' = {}
            /\ UNCHANGED enterLevels
    /\ UNCHANGED nextSym

SemanticAddSymbol(name) ==
    /\ nextSym < MaxSyms
    /\ tables' = symbol_table_add(tables, analyzer.current_scope,
                                  symbol_create_variable(name, "int", TRUE, nextSym))
    /\ nextSym' = nextSym + 1
    /\ semOp' = "add"
    /\ UNCHANGED <<analyzer, enterLevels, exitedNames, surplus>>

(***************************************************************************)
(* The type functions of the semantic analyzer (semantic.c).               *)
(***************************************************************************)
\* ast_node_get_type, case NODE_LITERAL
literal_type(token) ==
    IF token.type = "TOKEN_INTEGER_LITERAL" THEN "TYPE_INT"
    ELSE IF token.type = "TOKEN_FLOAT_LITERAL" THEN "TYPE_FLOAT"
    ELSE IF token.type = "TOKEN_STRING_LITERAL" THEN "TYPE_STRING"
    ELSE IF token.type \in {"TOKEN_TRUE", "TOKEN_FALSE"} THEN "TYPE_BOOL"
    ELSE "TYPE_UNKNOWN"

\* ast_node_get_type, case NODE_IDENTIFIER
identifier_type(symbol) ==
    IF symbol.type = "SYMBOL_VARIABLE"
    THEN CASE symbol.type_name = "int" -> "TYPE_INT"
           [] symbol.type_name = "float" -> "TYPE_FLOAT"
           [] symbol.type_name = "string" -> "TYPE_STRING"
           [] symbol.type_name = "bool" -> "TYPE_BOOL"
           [] symbol.type_name = "void" -> "TYPE_VOID"
           [] OTHER -> "TYPE_UNKNOWN"
    ELSE "TYPE_UNKNOWN"

ComparisonOperators ==
    {<<"=","=">>, <<"!","=">>, <<"<">>, <<"<","=">>, <<">">>, <<">","=">>}
LogicalOperators == {<<"&","&">>, <<"|","|">>}

\* ast_node_get_type, case NODE_BINARY_EXPRESSION, once the operands are typed
binary_type(operator, left_type, right_type) ==
    IF left_type = right_type /\ left_type \in {"TYPE_INT", "TYPE_FLOAT"} THEN left_type
    ELSE IF operator \in ComparisonOperators THEN "TYPE_BOOL"
    ELSE IF operator \in LogicalOperators THEN "TYPE_BOOL"
    ELSE "TYPE_ERROR"

RECURSIVE ast_node_get_type(_, _, _)
ast_node_get_type(node, A, T) ==
    IF node.type = "NULL" THEN "TYPE_ERROR"
    ELSE IF node.type = "NODE_LITERAL" THEN literal_type(node.token)
    ELSE IF node.type = "NODE_IDENTIFIER"
    THEN identifier_type(symbol_table_lookup(T, A.current_scope, node.identifier_name))
    ELSE IF node.type = "NODE_BINARY_EXPRESSION"
    THEN binary_type(node.operator, ast_node_get_type(node.left, A, T),
                     ast_node_get_type(node.right, A, T))
    ELSE "TYPE_UNKNOWN"

semantic_analyze(node, A, T) ==
    IF node.type = "NULL" THEN FALSE
    ELSE ast_node_get_type(node, A, T) # "TYPE_ERROR"

\* semantic_check_binary_operation, once the operands are typed
check_types(o, left_type, right_type) ==
    IF left_type \in {"TYPE_INT", "TYPE_FLOAT"} /\ left_type = right_type THEN TRUE
    ELSE IF o \in ComparisonOperators THEN TRUE
    ELSE IF o \in LogicalOperators /\ left_type = "TYPE_BOOL" /\ right_type = "TYPE_BOOL"
    THEN TRUE
    ELSE FALSE

semantic_check_binary_operation(left, right, o, A, T) ==
    IF left.type = "NULL" \/ right.type = "NULL" THEN FALSE
    ELSE check_types(o, ast_node_get_type(left, A, T), ast_node_get_type(right, A, T))

(***************************************************************************)
(* The type specification: an expression tree drawn from a bounded set is  *)
(* given to ast_node_get_type, semantic_analyze and                        *)
(* semantic_check_binary_operation, with `count` declared int.             *)
(***************************************************************************)
Leaf(type, lexeme) == token_create_with_literal(type, lexeme, 1, 1)

TypeLeaves ==
    { ast_node_create_literal_int(Leaf("TOKEN_INTEGER_LITERAL", <<"1">>), 1),
      ast_node_create_literal_float(Leaf("TOKEN_FLOAT_LITERAL", <<"1", ".", "5">>),
                                    atof(<<"1", ".", "5">>)),
      ast_node_create("NODE_LITERAL", token_create("TOKEN_TRUE", <<"t","r","u","e">>, 1, 1)),
      ast_node_create_identifier(token_create("TOKEN_IDENTIFIER", <<"c">>, 1, 1), "count") }

TypeOperators == {<<"+">>, <<"=","=">>, <<"&","&">>}

OperatorTokenType(o) ==
    IF Len(o) = 1 THEN OneCharType(o[1])
    ELSE (CHOOSE t \in TwoCharOps : t[1] = o[1] /\ t[2] = o[2])[3]

BinaryNode(o, left, right) ==
    ast_node_create_binary(token_create(OperatorTokenType(o), o, 1, 1), left, right, o)

\* the expression trees of n leaves
RECURSIVE TreesOf(_, _, _)
TreesOf(n, leaves, operators) ==
    IF n = 1 THEN leaves
    ELSE UNION { { BinaryNode(o, l, r) : o \in operators,
                                        l \in TreesOf(k, leaves, operators),
                                        r \in TreesOf(n - k, leaves, operators) }
                 : k \in 1..(n - 1) }

\* the expressions of at most `most` leaves
TypeTrees(most) == UNION { TreesOf(n, TypeLeaves, TypeOperators) : n \in 1..most }

NoTypeOut == [type |-> "NONE", ok |-> FALSE]

IdleType ==
    /\ typeNode = NullNode
    /\ typeOp = "idle"
    /\ typeOut = NoTypeOut

\* an analyzer whose global scope declares `count` as int
InitTypeScope ==
    /\ analyzer = semantic_analyzer_create.analyzer
    /\ tables = symbol_table_add(semantic_analyzer_create.tables, 0,
                                 symbol_create_variable("count", "int", TRUE, 0))
    /\ nextSym = 1
    /\ semOp = "add"
    /\ enterLevels = <<>>
    /\ exitedNames = {}
    /\ surplus = 0

InitTypes ==
    /\ typeNode \in TypeTrees(MaxTypeLeaves)
    /\ typeOp = "input"
    /\ typeOut = NoTypeOut

AstNodeGetType ==
    /\ typeOp' = "get_type"
    /\ typeOut' = [type |-> ast_node_get_type(typeNode, analyzer, tables), ok |-> FALSE]
    /\ UNCHANGED typeNode

SemanticAnalyze ==
    /\ typeOp' = "analyze"
    /\ typeOut' = [type |-> "NONE", ok |-> semantic_analyze(typeNode, analyzer, tables)]
    /\ UNCHANGED typeNode

\* the check an analysis makes of a binary expression: its operands and operator
SemanticCheckBinaryOperation ==
    /\ typeNode.type = "NODE_BINARY_EXPRESSION"
    /\ typeOp' = "check"
    /\ typeOut' = [type |-> "NONE",
                   ok |-> semantic_check_binary_operation(typeNode.left, typeNode.right,
                                                          typeNode.operator, analyzer, tables)]
    /\ UNCHANGED typeNode

(***************************************************************************)
(* The code generator (codegen.c).  The output file is the sequence of the *)
(* lines written to it; a line is the fprintf format and its argument.     *)
(***************************************************************************)
REGISTER_RAX == 0
REGISTER_RBP == 14
REGISTER_COUNT == 16
Registers == 0..(REGISTER_COUNT - 1)

NullFile == [open |-> FALSE, lines |-> <<>>]
Line(text, arg) == [text |-> text, arg |-> arg]

\* fopen(output_filename, "w"): a new, empty file
fopen_w == [open |-> TRUE, lines |-> <<>>]

fprintf(g, text, arg) ==
    [g EXCEPT !.output_file.lines = Append(@, Line(text, arg))]

Returned(g, result) == [g |-> g, result |-> result]

\* further AST nodes the generator meets
ast_node_create_unary(token, operand, operator) ==
    [type |-> "NODE_UNARY_EXPRESSION", token |-> token,
     line |-> token.line, column |-> token.column,
     operand |-> operand, operator |-> operator]

ast_node_create_variable_declaration(token, type_name, var_name, initializer) ==
    [type |-> "NODE_VARIABLE_DECLARATION", token |-> token,
     line |-> token.line, column |-> token.column,
     type_name |-> type_name, name |-> var_name, initializer |-> initializer,
     is_mutable |-> TRUE]

\* children is the first_child / next_sibling list
ast_node_create_program ==
    [type |-> "NODE_PROGRAM", token |-> NullToken, line |-> 0, column |-> 0,
     children |-> <<>>]

ast_node_add_child(parent, child) ==
    IF child.type = "NULL" THEN parent
    ELSE [parent EXCEPT !.children = Append(@, child)]

code_generator_create ==
    [symbol_table |-> 0, output_file |-> NullFile, had_error |-> 0, last_error |-> "",
     label_counter |-> 0, stack_offset |-> 0,
     used_registers |-> [r \in Registers |-> 0], temp_var_counter |-> 0]

code_generator_error(g, message) ==
    [g EXCEPT !.last_error = message, !.had_error = 1]

\* opened tells whether fopen succeeds
code_generator_set_output(g, opened) ==
    IF opened THEN Returned([g EXCEPT !.output_file = fopen_w], "CODEGEN_SUCCESS")
    ELSE Returned(code_generator_error([g EXCEPT !.output_file = NullFile],
                                       "Failed to open output file"),
                  "CODEGEN_ERROR_INVALID_EXPRESSION")

PrologueLines ==
    << Line("    .section .data", 0), Line("    .section .text", 0),
       Line("    .global _main", 0), Line("_main:", 0),
       Line("    push    rbp", 0), Line("    mov     rbp, rsp", 0) >>

EpilogueLines ==
    << Line("    mov     rsp, rbp", 0), Line("    pop     rbp", 0), Line("    ret", 0) >>

code_generator_emit_prologue(g) ==
    IF ~g.output_file.open THEN Returned(g, "CODEGEN_ERROR_NULL_ANALYZER")
    ELSE Returned([g EXCEPT !.output_file.lines = @ \o PrologueLines], "CODEGEN_SUCCESS")

\* generate_program without its epilogue
code_generator_emit_nothing(g) ==
    IF ~g.output_file.open THEN Returned(g, "CODEGEN_ERROR_NULL_ANALYZER")
    ELSE Returned(g, "CODEGEN_SUCCESS")

code_generator_emit_epilogue(g) ==
    IF ~g.output_file.open THEN Returned(g, "CODEGEN_ERROR_NULL_ANALYZER")
    ELSE Returned([g EXCEPT !.output_file.lines = @ \o EpilogueLines], "CODEGEN_SUCCESS")

code_generator_emit_comment(g, comment) ==
    IF ~g.output_file.open THEN Returned(g, "CODEGEN_ERROR_NULL_ANALYZER")
    ELSE Returned(fprintf(g, "    # " \o comment, 0), "CODEGEN_SUCCESS")

\* the NULL operands argument
NullString == "(null)"

\* printf's %-7s: the text, padded with blanks on the right to 7 characters
RECURSIVE PadRight(_, _)
PadRight(text, width) == IF Len(text) >= width THEN text ELSE PadRight(text \o " ", width)

code_generator_emit_instruction(g, instruction, operands) ==
    IF ~g.output_file.open THEN Returned(g, "CODEGEN_ERROR_NULL_ANALYZER")
    ELSE IF operands # NullString
    THEN Returned(fprintf(g, "    " \o PadRight(instruction, 7) \o " " \o operands, 0),
                  "CODEGEN_SUCCESS")
    ELSE Returned(fprintf(g, "    " \o instruction, 0), "CODEGEN_SUCCESS")

code_generator_emit_label(g, label) ==
    IF ~g.output_file.open THEN Returned(g, "CODEGEN_ERROR_NULL_ANALYZER")
    ELSE Returned(fprintf(g, label \o ":", 0), "CODEGEN_SUCCESS")

\* the registers the allocation loop visits
Allocatable == REGISTER_RAX..(REGISTER_RBP - 1)

\* an allocation that takes the highest free register
code_generator_allocate_register_last(g) ==
    LET free == {r \in Allocatable : g.used_registers[r] = 0} IN
    IF free = {} THEN Returned(g, REGISTER_COUNT)
    ELSE LET i == CHOOSE r \in free : \A q \in free : q <= r IN
         Returned([g EXCEPT !.used_registers[i] = 1], i)

code_generator_allocate_register(g) ==
    LET free == {r \in Allocatable : g.used_registers[r] = 0} IN
    IF free = {} THEN Returned(g, REGISTER_COUNT)
    ELSE LET i == CHOOSE r \in free : \A q \in free : r <= q IN
         Returned([g EXCEPT !.used_registers[i] = 1], i)

code_generator_free_register(g, reg) ==
    IF reg < REGISTER_COUNT THEN [g EXCEPT !.used_registers[reg] = 0] ELSE g

code_generator_generate_literal(g, node) ==
    IF node.type = "NULL" \/ ~g.output_file.open
    THEN Returned(g, "CODEGEN_ERROR_NULL_ANALYZER")
    ELSE IF node.type # "NODE_LITERAL" THEN Returned(g, "CODEGEN_ERROR_UNSUPPORTED_NODE")
    ELSE IF node.token.type = "TOKEN_INTEGER_LITERAL"
    THEN Returned(fprintf(g, "    mov     rax, %d", node.literal.int_value),
                  "CODEGEN_SUCCESS")
    ELSE Returned(g, "CODEGEN_ERROR_UNSUPPORTED_NODE")

\* generate_binary with the operands of `-` the other way round
binary_operation_swapped(g, o) ==
    IF o = <<"+">> THEN Returned(fprintf(g, "    add     rax, rbx", 0), "CODEGEN_SUCCESS")
    ELSE IF o = <<"-">> THEN Returned(fprintf(g, "    sub     rax, rbx", 0), "CODEGEN_SUCCESS")
    ELSE IF o = <<"*">> THEN Returned(fprintf(g, "    imul    rax, rbx", 0), "CODEGEN_SUCCESS")
    ELSE Returned(g, "CODEGEN_ERROR_UNSUPPORTED_NODE")

\* generate_binary: the operation, after both operands
binary_operation(g, o) ==
    IF o = <<"+">> THEN Returned(fprintf(g, "    add     rax, rbx", 0), "CODEGEN_SUCCESS")
    ELSE IF o = <<"-">>
    THEN Returned(fprintf(fprintf(g, "    sub     rbx, rax", 0), "    mov     rax, rbx", 0),
                  "CODEGEN_SUCCESS")
    ELSE IF o = <<"*">> THEN Returned(fprintf(g, "    imul    rax, rbx", 0), "CODEGEN_SUCCESS")
    ELSE Returned(g, "CODEGEN_ERROR_UNSUPPORTED_NODE")

RECURSIVE code_generator_generate_expression(_, _)

\* generate_binary: after the right operand
binary_after_right(r, node) ==
    IF r.result # "CODEGEN_SUCCESS" THEN r
    ELSE binary_operation(fprintf(r.g, "    pop     rbx", 0), node.operator)

\* generate_binary: after the left operand
binary_after_left(r, node) ==
    IF r.result # "CODEGEN_SUCCESS" THEN r
    ELSE binary_after_right(
             code_generator_generate_expression(fprintf(r.g, "    push    rax", 0), node.right),
             node)

code_generator_generate_binary(g, node) ==
    IF node.type = "NULL" \/ ~g.output_file.open
    THEN Returned(g, "CODEGEN_ERROR_NULL_ANALYZER")
    ELSE IF node.type # "NODE_BINARY_EXPRESSION"
    THEN Returned(g, "CODEGEN_ERROR_UNSUPPORTED_NODE")
    ELSE binary_after_left(code_generator_generate_expression(g, node.left), node)

\* an identifier lowered as a load before the error is returned
code_generator_generate_expression_partial(g, node) ==
    IF node.type = "NULL" THEN Returned(g, "CODEGEN_ERROR_NULL_ANALYZER")
    ELSE IF node.type = "NODE_LITERAL" THEN code_generator_generate_literal(g, node)
    ELSE IF node.type = "NODE_BINARY_EXPRESSION" THEN code_generator_generate_binary(g, node)
    ELSE IF node.type = "NODE_IDENTIFIER" /\ g.output_file.open
    THEN Returned(fprintf(g, "    mov     rax, [rbp-%d]", g.stack_offset),
                  "CODEGEN_ERROR_UNSUPPORTED_NODE")
    ELSE Returned(g, "CODEGEN_ERROR_UNSUPPORTED_NODE")

code_generator_generate_expression(g, node) ==
    IF node.type = "NULL" THEN Returned(g, "CODEGEN_ERROR_NULL_ANALYZER")
    ELSE IF node.type = "NODE_LITERAL" THEN code_generator_generate_literal(g, node)
    ELSE IF node.type = "NODE_BINARY_EXPRESSION" THEN code_generator_generate_binary(g, node)
    ELSE Returned(g, "CODEGEN_ERROR_UNSUPPORTED_NODE")

\* generate_variable_declaration: after the initializer
declaration_after_initializer(r) ==
    IF r.result # "CODEGEN_SUCCESS" THEN r
    ELSE Returned(fprintf(r.g, "    mov     [rbp-%d], rax", r.g.stack_offset),
                  "CODEGEN_SUCCESS")

\* generate_variable_declaration: after the stack_offset bump
declaration_allocated(g, node) ==
    IF node.initializer.type # "NULL"
    THEN declaration_after_initializer(
             code_generator_generate_expression(g, node.initializer))
    ELSE Returned(g, "CODEGEN_SUCCESS")

code_generator_generate_variable_declaration(g, node) ==
    IF node.type = "NULL" \/ ~g.output_file.open
    THEN Returned(g, "CODEGEN_ERROR_NULL_ANALYZER")
    ELSE IF node.type # "NODE_VARIABLE_DECLARATION"
    THEN Returned(g, "CODEGEN_ERROR_UNSUPPORTED_NODE")
    ELSE declaration_allocated(
             fprintf([g EXCEPT !.stack_offset = @ + 8], "    sub     rsp, 8", 0), node)

\* generate_program: the switch on one child
program_child(g, child) ==
    IF child.type = "NODE_VARIABLE_DECLARATION"
    THEN code_generator_generate_variable_declaration(g, child)
    ELSE IF child.type \in {"NODE_BINARY_EXPRESSION", "NODE_LITERAL", "NODE_IDENTIFIER"}
    THEN code_generator_generate_expression(g, child)
    ELSE Returned(g, "CODEGEN_ERROR_UNSUPPORTED_NODE")

\* a child loop that goes on after a failed child and returns the last result
RECURSIVE program_children_continuing(_, _, _)
program_children_continuing(g, children, k) ==
    IF k > Len(children) THEN code_generator_emit_epilogue(g)
    ELSE program_children_continuing(program_child(g, children[k]).g, children, k + 1)

RECURSIVE program_children(_, _, _)
\* generate_program: after child k
program_after_child(r, children, k) ==
    IF r.result # "CODEGEN_SUCCESS" THEN r
    ELSE program_children(r.g, children, k + 1)

\* generate_program: the loop from child k on, then the epilogue
program_children(g, children, k) ==
    IF k > Len(children) THEN code_generator_emit_epilogue(g)
    ELSE program_after_child(program_child(g, children[k]), children, k)

\* generate_program: a standalone expression, then the epilogue
program_single(r) ==
    IF r.result # "CODEGEN_SUCCESS" THEN r
    ELSE code_generator_emit_epilogue(r.g)

\* generate_program: after the prologue
program_body(g, node) ==
    IF node.type = "NODE_PROGRAM" THEN program_children(g, node.children, 1)
    ELSE program_single(code_generator_generate_expression(g, node))

code_generator_generate_program(g, node) ==
    IF node.type = "NULL" \/ ~g.output_file.open
    THEN Returned(g, "CODEGEN_ERROR_NULL_ANALYZER")
    ELSE program_body(code_generator_emit_prologue(g).g, node)

\* generate: after set_output
generate_opened(r, ast) ==
    IF r.result # "CODEGEN_SUCCESS" THEN r
    ELSE code_generator_generate_program(r.g, ast)

code_generator_generate(g, ast, opened) ==
    IF ast.type = "NULL" THEN Returned(g, "CODEGEN_ERROR_NULL_ANALYZER")
    ELSE generate_opened(code_generator_set_output(g, opened), ast)

code_generator_push_stack(g, size) ==
    IF ~g.output_file.open THEN Returned(g, "CODEGEN_ERROR_NULL_ANALYZER")
    ELSE Returned(fprintf([g EXCEPT !.stack_offset = @ + size], "    sub     rsp, %d", size),
                  "CODEGEN_SUCCESS")

code_generator_pop_stack(g, size) ==
    IF ~g.output_file.open THEN Returned(g, "CODEGEN_ERROR_NULL_ANALYZER")
    ELSE Returned(fprintf([g EXCEPT !.stack_offset = @ - size], "    add     rsp, %d", size),
                  "CODEGEN_SUCCESS")

(***************************************************************************)
(* The generation specification: one AST drawn from a bounded set is given *)
(* once to generate, generate_program or generate_expression, by a         *)
(* generator whose output is closed, open and empty, or open with earlier  *)
(* output.                                                                 *)
(***************************************************************************)
IntLiteral(d) ==
    ast_node_create_literal_int(Leaf("TOKEN_INTEGER_LITERAL", <<d>>), DigitValue(d))

IdentifierX == ast_node_create_identifier(token_create("TOKEN_IDENTIFIER", <<"x">>, 1, 1), "x")

ExprLeaves == {IntLiteral("2"), IntLiteral("3")}
ExprOperators == {<<"+">>, <<"-">>, <<"*">>}
ExprTrees == UNION { TreesOf(n, ExprLeaves, ExprOperators) : n \in 1..MaxExprLeaves }

\* expressions the generator does not support, alone or inside a binary expression
UnsupportedNodes ==
    { IdentifierX,
      ast_node_create_unary(token_create("TOKEN_MINUS", <<"-">>, 1, 1), IntLiteral("2"), <<"-">>),
      BinaryNode(<<"+">>, IntLiteral("2"), IdentifierX),
      BinaryNode(<<"/">>, IntLiteral("3"), IntLiteral("2")) }

IntToken == token_create("TOKEN_INT", <<"i","n","t">>, 1, 1)

\* the kinds of top-level children of a Program node
ChildKinds ==
    { IntLiteral("2"),
      BinaryNode(<<"-">>, IntLiteral("2"), IntLiteral("3")),
      IdentifierX,
      ast_node_create_variable_declaration(IntToken, "int", "x", IntLiteral("3")),
      ast_node_create_variable_declaration(IntToken, "int", "x", NullNode),
      ast_node_create("NODE_RETURN_STATEMENT", token_create("TOKEN_RETURN", <<"r">>, 1, 1)) }

RECURSIVE AddChildren(_, _, _)
AddChildren(parent, children, k) ==
    IF k > Len(children) THEN parent
    ELSE AddChildren(ast_node_add_child(parent, children[k]), children, k + 1)

Programs ==
    { AddChildren(ast_node_create_program, children, 1) :
        children \in UNION {[1..n -> ChildKinds] : n \in 0..MaxChildren} }

GenInputs == ExprTrees \cup UnsupportedNodes \cup Programs

\* the generators a call can meet: fresh, with an open empty output, and with
\* earlier output and locals
EarlierGenerators ==
    { code_generator_create,
      code_generator_set_output(code_generator_create, TRUE).g,
      code_generator_push_stack(
          code_generator_emit_comment(
              code_generator_set_output(code_generator_create, TRUE).g, "earlier").g, 8).g }

NoGenResult == [code |-> "NONE", reg |-> REGISTER_COUNT]
Code(result) == [code |-> result, reg |-> REGISTER_COUNT]

IdleGen ==
    /\ gen = code_generator_create
    /\ genAst = NullNode
    /\ genOp = "idle"
    /\ genResult = NoGenResult
    /\ genCalls = 0

InitGenerate ==
    /\ gen \in EarlierGenerators
    /\ genAst \in GenInputs
    /\ genOp = "input"
    /\ genResult = NoGenResult
    /\ genCalls = 0

GenDone(r, name) ==
    /\ gen' = r.g
    /\ genResult' = Code(r.result)
    /\ genOp' = name
    /\ genCalls' = genCalls + 1

CodeGeneratorGenerate ==
    /\ genOp = "input"
    /\ \E opened \in BOOLEAN :
          GenDone(code_generator_generate(gen, genAst, opened), "generate")
    /\ UNCHANGED genAst

CodeGeneratorGenerateProgram ==
    /\ genOp = "input"
    /\ GenDone(code_generator_generate_program(gen, genAst), "generate_program")
    /\ UNCHANGED genAst

CodeGeneratorGenerateExpression ==
    /\ genOp = "input"
    /\ GenDone(code_generator_generate_expression(gen, genAst), "generate_expression")
    /\ UNCHANGED genAst

(***************************************************************************)
(* The operations specification: up to MaxGenCalls public operations of    *)
(* the code generator in any order.                                        *)
(***************************************************************************)
OpsInputs ==
    { IntLiteral("2"), IdentifierX,
      ast_node_create_variable_declaration(IntToken, "int", "x", IntLiteral("3")),
      AddChildren(ast_node_create_program,
                  <<ast_node_create_variable_declaration(IntToken, "int", "x", NullNode),
                    IntLiteral("2")>>, 1) }

StackSizes == {8, 16}

InitOps ==
    /\ gen = code_generator_create
    /\ genAst = NullNode
    /\ genOp = "create"
    /\ genResult = NoGenResult
    /\ genCalls = 0

OpsSetOutput ==
    /\ genCalls < MaxGenCalls
    /\ \E opened \in BOOLEAN : GenDone(code_generator_set_output(gen, opened), "set_output")
    /\ UNCHANGED genAst

OpsGenerate ==
    /\ genCalls < MaxGenCalls
    /\ \E ast \in OpsInputs, opened \in BOOLEAN :
          /\ GenDone(code_generator_generate(gen, ast, opened), "generate")
          /\ genAst' = ast

OpsGenerateProgram ==
    /\ genCalls < MaxGenCalls
    /\ \E ast \in OpsInputs :
          /\ GenDone(code_generator_generate_program(gen, ast), "generate_program")
          /\ genAst' = ast

OpsGenerateExpression ==
    /\ genCalls < MaxGenCalls
    /\ \E ast \in OpsInputs :
          /\ GenDone(code_generator_generate_expression(gen, ast), "generate_expression")
          /\ genAst' = ast

OpsGenerateVariableDeclaration ==
    /\ genCalls < MaxGenCalls
    /\ \E ast \in OpsInputs :
          /\ GenDone(code_generator_generate_variable_declaration(gen, ast),
                     "generate_variable_declaration")
          /\ genAst' = ast

OpsPushStack ==
    /\ genCalls < MaxGenCalls
    /\ \E size \in StackSizes : GenDone(code_generator_push_stack(gen, size), "push_stack")
    /\ UNCHANGED genAst

OpsPopStack ==
    /\ genCalls < MaxGenCalls
    /\ \E size \in StackSizes : GenDone(code_generator_pop_stack(gen, size), "pop_stack")
    /\ UNCHANGED genAst

OpsEmit ==
    /\ genCalls < MaxGenCalls
    /\ \/ GenDone(code_generator_emit_prologue(gen), "emit_prologue")
       \/ GenDone(code_generator_emit_epilogue(gen), "emit_epilogue")
       \/ GenDone(code_generator_emit_comment(gen, "note"), "emit_comment")
       \/ GenDone(code_generator_emit_label(gen, "L0"), "emit_label")
       \/ \E operands \in {"rax", NullString} :
             GenDone(code_generator_emit_instruction(gen, "nop", operands), "emit_instruction")
    /\ UNCHANGED genAst

OpsAllocateRegister ==
    /\ genCalls < MaxGenCalls
    /\ LET r == code_generator_allocate_register(gen) IN
       /\ gen' = r.g
       /\ genResult' = [code |-> "NONE", reg |-> r.result]
    /\ genOp' = "allocate_register"
    /\ genCalls' = genCalls + 1
    /\ UNCHANGED genAst

OpsFreeRegister ==
    /\ genCalls < MaxGenCalls
    /\ \E reg \in {REGISTER_RAX, REGISTER_RBP, REGISTER_COUNT} :
          gen' = code_generator_free_register(gen, reg)
    /\ genResult' = NoGenResult
    /\ genOp' = "free_register"
    /\ genCalls' = genCalls + 1
    /\ UNCHANGED genAst

(***************************************************************************)
(* The register specification: allocate_register and free_register in any *)
(* order, without end.                                                     *)
(***************************************************************************)
RegAllocateRegister ==
    /\ LET r == code_generator_allocate_register(gen) IN
       /\ gen' = r.g
       /\ genResult' = [code |-> "NONE", reg |-> r.result]
    /\ genOp' = "allocate_register"
    /\ UNCHANGED <<genAst, genCalls>>

RegFreeRegister ==
    /\ \E reg \in Registers \cup {REGISTER_COUNT} :
          gen' = code_generator_free_register(gen, reg)
    /\ genResult' = NoGenResult
    /\ genOp' = "free_register"
    /\ UNCHANGED <<genAst, genCalls>>

(***************************************************************************)
(* The destruction specification: a tree built with the node constructors  *)
(* is given to ast_node_free; a parser over a source text is created,      *)
(* parser_parse is called, and the returned node and then the parser are   *)
(* freed, as the tests do.                                                 *)
(***************************************************************************)
FreeSources ==
    UNION { {Join(items), <<"(">> \o Join(items) \o <<")">>} : items \in GeneralInputs }

FreeTrees == GenInputs \cup ChildKinds

IdleFree ==
    /\ freeSource = <<>>
    /\ freeParser = parser_create(lexer_create(<<>>))
    /\ freeNode = NullNode
    /\ freeOp = "idle"
    /\ obtained = <<>>
    /\ freed = <<>>

InitFree ==
    /\ \/ /\ freeSource \in FreeSources
          /\ freeNode = NullNode
          /\ freeOp = "create"
       \/ /\ freeSource = <<>>
          /\ freeNode \in FreeTrees
          /\ freeOp = "build"
    /\ freeParser = parser_create(lexer_create(freeSource))
    /\ obtained = <<>>
    /\ freed = <<>>

\* the tokens lexer_next_token returns from the lexer state L on, up to the
\* token `last`: what a parser that ends with current_token = last obtained
RECURSIVE TokensObtained(_, _, _)
TokensObtained(mem, L, last) ==
    LET r == lexer_next_token(mem, L) IN
    IF r.token = last \/ r.token.type = "TOKEN_EOF" THEN <<r.token>>
    ELSE <<r.token>> \o TokensObtained(mem, r.lexer, last)

FreeParserParse ==
    /\ freeOp = "create"
    /\ \E g \in Garbage :
          LET r == parser_parse(Memory(freeSource, g), freeParser) IN
          /\ freeParser' = r.s
          /\ freeNode' = r.node
          /\ obtained' = TokensObtained(Memory(freeSource, g), freeParser.lexer,
                                        r.s.current_token)
    /\ freeOp' = "parse"
    /\ UNCHANGED <<freeSource, freed>>

AstNodeFree ==
    /\ freeOp \in {"parse", "build"}
    /\ freed' = ast_node_free(freeNode, <<>>)
    /\ freeOp' = IF freeOp = "parse" THEN "node_free" ELSE "tree_free"
    /\ UNCHANGED <<freeSource, freeParser, freeNode, obtained>>

ParserFree ==
    /\ freeOp = "node_free"
    /\ freed' = freed \o parser_free(freeParser)
    /\ freeOp' = "parser_free"
    /\ UNCHANGED <<freeSource, freeParser, freeNode, obtained>>

(***************************************************************************)
(* The declaration specification: one generator, up to MaxDeclCalls calls  *)
(* of set_output, generate_variable_declaration, generate, push_stack and  *)
(* pop_stack in any order.                                                 *)
(***************************************************************************)
\* int x = 3;  int x;  int x = x;
Declarations ==
    { ast_node_create_variable_declaration(IntToken, "int", "x", IntLiteral("3")),
      ast_node_create_variable_declaration(IntToken, "int", "x", NullNode),
      ast_node_create_variable_declaration(IntToken, "int", "x", IdentifierX) }

DeclPrograms ==
    { AddChildren(ast_node_create_program, children, 1) :
        children \in { <<ast_node_create_variable_declaration(IntToken, "int", "x", IntLiteral("3"))>>,
                       <<ast_node_create_variable_declaration(IntToken, "int", "x", NullNode),
                         ast_node_create_variable_declaration(IntToken, "int", "x", IntLiteral("3"))>>,
                       <<ast_node_create_variable_declaration(IntToken, "int", "x", IdentifierX)>> } }

IdleDecl == slots = <<>>

InitDecl ==
    /\ InitOps
    /\ slots = <<>>

\* the stack offsets of the declarations that generate_program generates with
\* success among the children from the k-th on
RECURSIVE ProgramSlots(_, _, _)
ProgramSlotsAfter(r, children, k) ==
    IF r.result # "CODEGEN_SUCCESS" THEN <<>>
    ELSE (IF children[k].type = "NODE_VARIABLE_DECLARATION" THEN <<r.g.stack_offset>> ELSE <<>>)
         \o ProgramSlots(r.g, children, k + 1)

ProgramSlots(g, children, k) ==
    IF k > Len(children) THEN <<>>
    ELSE ProgramSlotsAfter(program_child(g, children[k]), children, k)

DeclSetOutput ==
    /\ genCalls < MaxDeclCalls
    /\ \E opened \in BOOLEAN : GenDone(code_generator_set_output(gen, opened), "set_output")
    /\ UNCHANGED <<genAst, slots>>

DeclGenerateVariableDeclaration ==
    /\ genCalls < MaxDeclCalls
    /\ \E ast \in Declarations :
          LET r == code_generator_generate_variable_declaration(gen, ast) IN
          /\ GenDone(r, "generate_variable_declaration")
          /\ genAst' = ast
          /\ slots' = IF r.result = "CODEGEN_SUCCESS"
                      THEN Append(slots, r.g.stack_offset) ELSE slots

DeclGenerate ==
    /\ genCalls < MaxDeclCalls
    /\ \E ast \in DeclPrograms, opened \in BOOLEAN :
          /\ GenDone(code_generator_generate(gen, ast, opened), "generate")
          /\ genAst' = ast
          /\ slots' = IF opened
                      THEN slots \o ProgramSlots(
                               code_generator_emit_prologue(
                                   code_generator_set_output(gen, TRUE).g).g,
                               ast.children, 1)
                      ELSE slots

DeclPushStack ==
    /\ genCalls < MaxDeclCalls
    /\ \E size \in StackSizes : GenDone(code_generator_push_stack(gen, size), "push_stack")
    /\ UNCHANGED <<genAst, slots>>

DeclPopStack ==
    /\ genCalls < MaxDeclCalls
    /\ \E size \in StackSizes : GenDone(code_generator_pop_stack(gen, size), "pop_stack")
    /\ UNCHANGED <<genAst, slots>>

(***************************************************************************)
(* Specifications                                                          *)
(***************************************************************************)
InitLex == InitLexer /\ IdleParser /\ IdleSemantic /\ IdleType /\ IdleGen /\ IdleFree /\ IdleDecl

NextLex ==
    \/ LexerNextToken /\ UNCHANGED <<parVars, semVars, typVars, genVars, memVars, declVars>>
    \/ LexerPeekToken /\ UNCHANGED <<parVars, semVars, typVars, genVars, memVars, declVars>>
    \/ LexerClearError /\ UNCHANGED <<parVars, semVars, typVars, genVars, memVars, declVars>>

SpecLex == InitLex /\ [][NextLex]_vars

InitParse == IdleLex /\ InitParser /\ IdleSemantic /\ IdleType /\ IdleGen /\ IdleFree /\ IdleDecl

NextParse == \E i \in Instances : ParserParse(i) /\ UNCHANGED <<lexVars, semVars, typVars, genVars, memVars, declVars>>

SpecParse == InitParse /\ [][NextParse]_vars

InitSem == IdleLex /\ IdleParser /\ InitSemantic /\ IdleType /\ IdleGen /\ IdleFree /\ IdleDecl

NextSem ==
    \/ SemanticEnterScope /\ UNCHANGED <<lexVars, parVars, typVars, genVars, memVars, declVars>>
    \/ SemanticExitScope /\ UNCHANGED <<lexVars, parVars, typVars, genVars, memVars, declVars>>
    \/ \E name \in Names : SemanticAddSymbol(name) /\ UNCHANGED <<lexVars, parVars, typVars, genVars, memVars, declVars>>

SpecSem == InitSem /\ [][NextSem]_vars

InitType == IdleLex /\ IdleParser /\ InitTypeScope /\ InitTypes /\ IdleGen /\ IdleFree /\ IdleDecl

NextType ==
    \/ AstNodeGetType /\ UNCHANGED <<lexVars, parVars, semVars, genVars, memVars, declVars>>
    \/ SemanticAnalyze /\ UNCHANGED <<lexVars, parVars, semVars, genVars, memVars, declVars>>
    \/ SemanticCheckBinaryOperation /\ UNCHANGED <<lexVars, parVars, semVars, genVars, memVars, declVars>>

SpecType == InitType /\ [][NextType]_vars

InitGen == IdleLex /\ IdleParser /\ IdleSemantic /\ IdleType /\ InitGenerate /\ IdleFree /\ IdleDecl

NextGen ==
    \/ CodeGeneratorGenerate /\ UNCHANGED <<lexVars, parVars, semVars, typVars, memVars, declVars>>
    \/ CodeGeneratorGenerateProgram /\ UNCHANGED <<lexVars, parVars, semVars, typVars, memVars, declVars>>
    \/ CodeGeneratorGenerateExpression /\ UNCHANGED <<lexVars, parVars, semVars, typVars, memVars, declVars>>

SpecGen == InitGen /\ [][NextGen]_vars

InitOperations == IdleLex /\ IdleParser /\ IdleSemantic /\ IdleType /\ InitOps /\ IdleFree /\ IdleDecl

NextOps ==
    \/ OpsSetOutput /\ UNCHANGED <<lexVars, parVars, semVars, typVars, memVars, declVars>>
    \/ OpsGenerate /\ UNCHANGED <<lexVars, parVars, semVars, typVars, memVars, declVars>>
    \/ OpsGenerateProgram /\ UNCHANGED <<lexVars, parVars, semVars, typVars, memVars, declVars>>
    \/ OpsGenerateExpression /\ UNCHANGED <<lexVars, parVars, semVars, typVars, memVars, declVars>>
    \/ OpsGenerateVariableDeclaration /\ UNCHANGED <<lexVars, parVars, semVars, typVars, memVars, declVars>>
    \/ OpsPushStack /\ UNCHANGED <<lexVars, parVars, semVars, typVars, memVars, declVars>>
    \/ OpsPopStack /\ UNCHANGED <<lexVars, parVars, semVars, typVars, memVars, declVars>>
    \/ OpsEmit /\ UNCHANGED <<lexVars, parVars, semVars, typVars, memVars, declVars>>
    \/ OpsAllocateRegister /\ UNCHANGED <<lexVars, parVars, semVars, typVars, memVars, declVars>>
    \/ OpsFreeRegister /\ UNCHANGED <<lexVars, parVars, semVars, typVars, memVars, declVars>>

SpecOps == InitOperations /\ [][NextOps]_vars

InitReg == IdleLex /\ IdleParser /\ IdleSemantic /\ IdleType /\ InitOps /\ IdleFree /\ IdleDecl

NextReg ==
    \/ RegAllocateRegister /\ UNCHANGED <<lexVars, parVars, semVars, typVars, memVars, declVars>>
    \/ RegFreeRegister /\ UNCHANGED <<lexVars, parVars, semVars, typVars, memVars, declVars>>

SpecReg == InitReg /\ [][NextReg]_vars

InitMem == IdleLex /\ IdleParser /\ IdleSemantic /\ IdleType /\ IdleGen /\ InitFree /\ IdleDecl

NextFree ==
    \/ FreeParserParse /\ UNCHANGED <<lexVars, parVars, semVars, typVars, genVars, declVars>>
    \/ AstNodeFree /\ UNCHANGED <<lexVars, parVars, semVars, typVars, genVars, declVars>>
    \/ ParserFree /\ UNCHANGED <<lexVars, parVars, semVars, typVars, genVars, declVars>>

SpecFree == InitMem /\ [][NextFree]_vars

InitDeclarations ==
    IdleLex /\ IdleParser /\ IdleSemantic /\ IdleType /\ InitDecl /\ IdleFree

NextDecl ==
    \/ DeclSetOutput /\ UNCHANGED <<lexVars, parVars, semVars, typVars, memVars>>
    \/ DeclGenerateVariableDeclaration /\ UNCHANGED <<lexVars, parVars, semVars, typVars, memVars>>
    \/ DeclGenerate /\ UNCHANGED <<lexVars, parVars, semVars, typVars, memVars>>
    \/ DeclPushStack /\ UNCHANGED <<lexVars, parVars, semVars, typVars, memVars>>
    \/ DeclPopStack /\ UNCHANGED <<lexVars, parVars, semVars, typVars, memVars>>

SpecDecl == InitDeclarations /\ [][NextDecl]_vars

Init == InitLex
Next == NextLex
Spec == SpecLex

(***************************************************************************)
(* Claims about the parser, checked under SpecParse.                       *)
(***************************************************************************)
\* the shape of a tree: node kinds, operators and operand values, without
\* the tokens and their positions
RECURSIVE Shape(_)
Shape(n) ==
    CASE n.type = "NODE_BINARY_EXPRESSION" ->
           [type |-> n.type, operator |-> n.operator,
            left |-> Shape(n.left), right |-> Shape(n.right)]
      [] n.type = "NODE_LITERAL" -> [type |-> n.type, literal |-> n.literal]
      [] n.type = "NODE_IDENTIFIER" -> [type |-> n.type, name |-> n.identifier_name]
      [] OTHER -> [type |-> n.type]

IsNumber(item) == Len(item) > 0 /\ \A k \in 1..Len(item) : item[k] \in Digits
IsName(item) ==
    /\ Len(item) > 0
    /\ \A k \in 1..Len(item) : item[k] \in Lower
    /\ \A k \in 1..Len(keywords) : keywords[k][1] # item
IsOperand(item) == IsNumber(item) \/ IsName(item)

\* the decimal value of a number's text
RECURSIVE Decimal(_)
Decimal(item) ==
    IF Len(item) = 0 THEN 0
    ELSE 10 * Decimal(SubSeq(item, 1, Len(item) - 1)) + DigitValue(item[Len(item)])

\* the trees the claims expect
OperandShape(item) ==
    IF IsNumber(item)
    THEN [type |-> "NODE_LITERAL",
          literal |-> [int_value |-> Decimal(item), float_value |-> [whole |-> 0, frac |-> <<>>],
                       string_value |-> <<>>, char_value |-> NUL]]
    ELSE [type |-> "NODE_IDENTIFIER", name |-> item]

BinaryShape(operator, left, right) ==
    [type |-> "NODE_BINARY_EXPRESSION", operator |-> operator, left |-> left, right |-> right]

\* the left-associated tree of operand (operator operand)*
RECURSIVE LeftAssociated(_)
LeftAssociated(items) ==
    IF Len(items) = 1 THEN OperandShape(items[1])
    ELSE BinaryShape(items[Len(items) - 1],
                     LeftAssociated(SubSeq(items, 1, Len(items) - 2)),
                     OperandShape(items[Len(items)]))

\* a OP1 b OP2 c with binary operators, OP2 of strictly higher precedence
IsPrecedenceInput(items) ==
    /\ Len(items) = 5
    /\ IsOperand(items[1]) /\ IsOperand(items[3]) /\ IsOperand(items[5])
    /\ items[2] \in BinaryLexemes /\ items[4] \in BinaryLexemes
    /\ TablePrecedence(items[4]) > TablePrecedence(items[2])

\* operand (OP operand)+ with binary operators of one precedence
IsEqualChain(items) ==
    /\ Len(items) >= 3 /\ Len(items) % 2 = 1
    /\ \A k \in 1..Len(items) :
          IF k % 2 = 1 THEN IsOperand(items[k]) ELSE items[k] \in BinaryLexemes
    /\ \A k \in 1..Len(items) :
          k % 2 = 0 => TablePrecedence(items[k]) = TablePrecedence(items[2])

\* the first parser_parse call of instance i has returned
Parsed(i) == inst # <<>> /\ inst[i].calls = 1

\* C1: parsing a OP1 b OP2 c, OP2 a binary operator of strictly higher
\* precedence than the binary operator OP1, returns a BinaryExpression with
\* operator OP1, left child a and right child the BinaryExpression OP2 over b, c
C1_PrecedenceTree ==
    (Parsed("plain") /\ IsPrecedenceInput(inst["plain"].items)) =>
        LET items == inst["plain"].items IN
        /\ ~inst["plain"].s.had_error
        /\ Shape(inst["plain"].node) =
               BinaryShape(items[2], OperandShape(items[1]),
                   BinaryShape(items[4], OperandShape(items[3]), OperandShape(items[5])))

C1_Witness ==
    /\ Parsed("plain")
    /\ inst["plain"].items = << <<"a">>, <<"+">>, <<"b">>, <<"*">>, <<"c">> >>
    /\ inst["plain"].node.type = "NODE_BINARY_EXPRESSION"
    /\ inst["plain"].node.right.type = "NODE_BINARY_EXPRESSION"

\* C2: parsing a chain of operands joined by binary operators of equal
\* precedence returns the left-associated tree: the last operator at the root,
\* the last operand its right child, the tree of the shorter chain its left child
C2_LeftAssociative ==
    (Parsed("plain") /\ IsEqualChain(inst["plain"].items)) =>
        /\ ~inst["plain"].s.had_error
        /\ Shape(inst["plain"].node) = LeftAssociated(inst["plain"].items)

C2_Witness ==
    /\ Parsed("plain")
    /\ inst["plain"].items = << <<"1">>, <<"-">>, <<"2">>, <<"-">>, <<"3">> >>
    /\ inst["plain"].node.type = "NODE_BINARY_EXPRESSION"
    /\ inst["plain"].node.left.type = "NODE_BINARY_EXPRESSION"
    /\ inst["plain"].node.right.type = "NODE_LITERAL"

\* parser_parse accepted the text of instance i without error
Accepted(i) ==
    /\ inst[i].node.type \notin {"NULL", "NODE_ERROR"}
    /\ ~parser_had_error(inst[i].s)

\* C3: whenever parser_parse accepts the text E without error, it accepts (E)
\* without error too and returns a tree of the same shape
C3_ParenthesesKeepShape ==
    (Parsed("plain") /\ Parsed("paren") /\ Accepted("plain")) =>
        /\ Accepted("paren")
        /\ Shape(inst["paren"].node) = Shape(inst["plain"].node)

\* C4: parser_parse never returns null, and whenever it returns an Error node
\* the error flag is set and a diagnostic is retained
C4_ErrorNodeHasDiagnostic ==
    \A i \in Instances :
        (inst # <<>> /\ inst[i].calls >= 1) =>
            /\ inst[i].node.type # "NULL"
            /\ inst[i].node.type = "NODE_ERROR" =>
                  /\ parser_had_error(inst[i].s)
                  /\ parser_get_last_error(inst[i].s).code # "NULL"

\* C5: parsing x = 10 consumes the = and its right-hand side and returns an
\* assignment-expression node, not the identifier x
C5_AssignmentParsed ==
    (Parsed("plain") /\ inst["plain"].items = << <<"x">>, <<"=">>, <<"1","0">> >>) =>
        /\ inst["plain"].node.type = "NODE_ASSIGNMENT_EXPRESSION"
        /\ inst["plain"].s.current_token.type = "TOKEN_EOF"

(***************************************************************************)
(* Claims about the lexer, checked under SpecLex.                          *)
(***************************************************************************)
\* kind, lexeme, line and column of a token
TokenView(t) == <<t.type, t.lexeme, t.line, t.column>>

\* C6: every lexer_next_token call returns a token, and once one has returned
\* TOKEN_EOF every later call returns TOKEN_EOF and leaves position, line and
\* column unchanged
C6_EofIsSticky ==
    [][op' = "next" =>
          /\ tok'.type # "NULL"
          /\ eofCalls >= 1 =>
                /\ tok'.type = "TOKEN_EOF"
                /\ lexer'.position = lexer.position
                /\ lexer'.line = lexer.line
                /\ lexer'.column = lexer.column]_vars

C6_Witness ==
    /\ eofCalls >= 2
    /\ op = "next"
    /\ tok.type = "TOKEN_EOF"
    /\ Len(source) >= 2

\* C7: lexer_peek_token leaves position, line, column and current character as
\* they were, and the token it returns has the kind, lexeme, line and column of
\* the token the next lexer_next_token (or lexer_peek_token) call returns
C7_PeekIsNextToken ==
    [][/\ op' = "peek" =>
             /\ lexer'.position = lexer.position
             /\ lexer'.line = lexer.line
             /\ lexer'.column = lexer.column
             /\ lexer'.current_char = lexer.current_char
       /\ (op = "peek" /\ op' \in {"next", "peek"}) =>
             TokenView(tok') = TokenView(tok)]_vars

QuoteWrapped(lexeme) ==
    Len(lexeme) >= 2 /\ lexeme[1] = "\"" /\ lexeme[Len(lexeme)] = "\""

\* C8: tokenizing an unterminated string literal returns a string-literal token
\* whose lexeme is wrapped in double quotes and sets the error flag with a
\* Lexical diagnostic, and the flag stays set until lexer_clear_error
C8_UnterminatedString ==
    /\ [][(op' = "next" /\ StartsUnterminatedString(source, lexer)) =>
             /\ tok'.type = "TOKEN_STRING_LITERAL"
             /\ QuoteWrapped(tok'.lexeme)
             /\ lexer'.had_error
             /\ lexer'.last_error.code = "ERROR_LEXICAL"]_vars
    /\ [](strErr => lexer.had_error)

(***************************************************************************)
(* Claims about the scope stack, checked under SpecSem.                    *)
(***************************************************************************)
Found(T, table, name) == symbol_table_lookup(T, table, name).type # "NULL"

\* the tables of the scope stack, outermost first
LiveTables(A) == {A.scope_stack[i] : i \in 1..A.scope_stack_size}

\* C9: a lookup from the current scope finds the symbols of the current and of
\* every enclosing scope; after exit_scope a name declared only in the exited
\* scope is not found, the outer symbols are still found, and the scope level
\* is the level before the matching enter_scope
C9_ScopedLookup ==
    /\ [](semOp # "idle" =>
            \A t \in LiveTables(analyzer) : \A n \in TableNames(tables, t) :
                Found(tables, analyzer.current_scope, n))
    /\ [][(semOp' = "exit" /\ analyzer.scope_stack_size > 1) =>
             LET exited == analyzer.current_scope
                 outer == UNION {TableNames(tables, t) : t \in LiveTables(analyzer) \ {exited}}
             IN /\ \A n \in TableNames(tables, exited) \ outer :
                       ~Found(tables', analyzer'.current_scope, n)
                /\ \A n \in outer :
                       /\ Found(tables', analyzer'.current_scope, n)
                       /\ symbol_table_lookup(tables', analyzer'.current_scope, n)
                            = symbol_table_lookup(tables, tables[exited].parent, n)
                /\ tables'[analyzer'.current_scope].alive
                /\ tables'[analyzer'.current_scope].scope_level = Head(enterLevels)]_vars

C9_Witness ==
    /\ semOp = "exit"
    /\ "local" \in exitedNames
    /\ ~Found(tables, analyzer.current_scope, "local")
    /\ Found(tables, analyzer.current_scope, "count")
    /\ tables[analyzer.current_scope].scope_level = 0

\* C10: exit_scope at depth 0 changes nothing: the global table stays alive, its
\* symbols stay resolvable, and current scope, stack size and scope level stay
\* as they were
C10_ExitAtGlobalIsNoOp ==
    [][(semOp' = "exit" /\ analyzer.scope_stack_size <= 1) =>
          /\ tables'[0].alive
          /\ tables'[0] = tables[0]
          /\ \A n \in TableNames(tables, 0) :
                symbol_table_lookup(tables', analyzer'.current_scope, n)
                    = symbol_table_lookup(tables, analyzer.current_scope, n)
          /\ analyzer'.current_scope = analyzer.current_scope
          /\ analyzer'.scope_stack_size = analyzer.scope_stack_size
          /\ analyzer'.scope_stack = analyzer.scope_stack
          /\ tables'[analyzer'.current_scope].scope_level
                = tables[analyzer.current_scope].scope_level]_vars

C10_Witness ==
    /\ semOp = "exit"
    /\ surplus >= 2
    /\ Len(enterLevels) = 0
    /\ exitedNames = {}
    /\ Len(tables[0].symbols) >= 1
    /\ \E a \in Addrs : a # 0 /\ ~tables[a].alive /\ analyzer.scope_stack_size = 1
                        /\ Len(analyzer.scope_stack) >= 2

\* the symbols of the name in a table
Named(T, table, name) ==
    {T[table].symbols[k] : k \in {j \in 1..Len(T[table].symbols) : T[table].symbols[j].name = name}}

\* the stack levels at or below level i whose table holds the name
HoldingLevels(A, T, i, name) == {j \in 1..i : Named(T, A.scope_stack[j], name) # {}}

\* C11: symbol_table_lookup returns the earliest-inserted symbol of the name in
\* the innermost table of the parent chain that holds the name, and not-found
\* only when no table of the chain up to the global table holds it
C11_FirstMatchInnermost ==
    semOp # "idle" =>
        \A i \in 1..analyzer.scope_stack_size : \A name \in Names :
            LET levels == HoldingLevels(analyzer, tables, i, name)
                got == symbol_table_lookup(tables, analyzer.scope_stack[i], name)
            IN IF levels = {} THEN got = NullSymbol
               ELSE LET inner == CHOOSE j \in levels : \A k \in levels : k <= j
                        syms == Named(tables, analyzer.scope_stack[inner], name)
                    IN /\ got \in syms
                       /\ \A sym \in syms : got.uid <= sym.uid

C11_Witness ==
    /\ semOp # "idle"
    /\ analyzer.scope_stack_size >= 2
    /\ Cardinality(Named(tables, analyzer.current_scope, "count")) >= 2
    /\ Named(tables, 0, "count") # {}
    /\ Named(tables, analyzer.current_scope, "local") = {}
    /\ symbol_table_lookup(tables, analyzer.current_scope, "count")
           = tables[analyzer.current_scope].symbols[1]
    /\ symbol_table_lookup(tables, analyzer.current_scope, "local") = NullSymbol

(***************************************************************************)
(* Claims about the type functions, checked under SpecType.                *)
(***************************************************************************)
TypeOf(node) == ast_node_get_type(node, analyzer, tables)

\* C12: ast_node_get_type of a BinaryExpression with operator == is Bool for
\* every pair of operand types, two Int and two Float operands included
C12_EqualityIsBool ==
    (typeOp = "get_type" /\ typeNode.type = "NODE_BINARY_EXPRESSION"
        /\ typeNode.operator = <<"=","=">>)
    => typeOut.type = "TYPE_BOOL"

\* C13: semantic_check_binary_operation with && or || reports valid only when
\* both operand types are Bool, and invalid for every other pair
C13_LogicalNeedsBool ==
    (typeOp = "check" /\ typeNode.operator \in LogicalOperators)
    => (typeOut.ok <=> (TypeOf(typeNode.left) = "TYPE_BOOL"
                        /\ TypeOf(typeNode.right) = "TYPE_BOOL"))

\* the node and the expressions inside it
RECURSIVE Subexpressions(_)
Subexpressions(node) ==
    IF node.type = "NODE_BINARY_EXPRESSION"
    THEN {node} \cup Subexpressions(node.left) \cup Subexpressions(node.right)
    ELSE {node}

\* C14: a type error propagates to the root: a BinaryExpression with a
\* subexpression of type Error has type Error itself, and semantic_analyze on
\* the root reports failure
C14_TypeErrorPropagates ==
    typeOp \in {"get_type", "analyze"} =>
        /\ \A n \in Subexpressions(typeNode) :
              (\E e \in Subexpressions(n) : TypeOf(e) = "TYPE_ERROR")
                  => TypeOf(n) = "TYPE_ERROR"
        /\ (\E e \in Subexpressions(typeNode) : TypeOf(e) = "TYPE_ERROR") =>
              /\ typeOp = "get_type" => typeOut.type = "TYPE_ERROR"
              /\ typeOp = "analyze" => ~typeOut.ok

(***************************************************************************)
(* Claims about code generation, checked under SpecGen.                    *)
(***************************************************************************)
\* the text of the lines first..last of the output
OutputText(g, first, last) ==
    [k \in 1..(last - first + 1) |-> g.output_file.lines[first + k - 1].text]

OutputLength(g) == Len(g.output_file.lines)

ExpectedPrologue ==
    << "    .section .data", "    .section .text", "    .global _main", "_main:",
       "    push    rbp", "    mov     rbp, rsp" >>

ExpectedEpilogue == << "    mov     rsp, rbp", "    pop     rbp", "    ret" >>

FrameLines ==
    {ExpectedPrologue[k] : k \in 1..Len(ExpectedPrologue)}
        \cup {ExpectedEpilogue[k] : k \in 1..Len(ExpectedEpilogue)}

\* C15: when code_generator_generate returns success the output starts with
\* the prologue lines in order, ends with the epilogue lines in order, and
\* everything between them is body: no prologue or epilogue line occurs a
\* second time, and the body of a standalone expression is its instructions
C15_OutputIsBracketed ==
    (genOp = "generate" /\ genResult.code = "CODEGEN_SUCCESS") =>
        LET n == OutputLength(gen) IN
        /\ gen.output_file.open
        /\ n >= Len(ExpectedPrologue) + Len(ExpectedEpilogue)
        /\ OutputText(gen, 1, Len(ExpectedPrologue)) = ExpectedPrologue
        /\ OutputText(gen, n - Len(ExpectedEpilogue) + 1, n) = ExpectedEpilogue
        /\ \A k \in (Len(ExpectedPrologue) + 1)..(n - Len(ExpectedEpilogue)) :
              gen.output_file.lines[k].text \notin FrameLines
        /\ genAst.type # "NODE_PROGRAM" =>
              SubSeq(gen.output_file.lines, Len(ExpectedPrologue) + 1,
                     n - Len(ExpectedEpilogue))
                = code_generator_generate_expression(
                      code_generator_set_output(code_generator_create, TRUE).g,
                      genAst).g.output_file.lines

C15_Witness ==
    /\ genOp = "generate"
    /\ genResult.code = "CODEGEN_SUCCESS"
    /\ genAst.type = "NODE_PROGRAM"
    /\ Len(genAst.children) = 2
    /\ gen.stack_offset = 16
    /\ OutputLength(gen) > Len(ExpectedPrologue) + Len(ExpectedEpilogue) + 2

\* an expression tree of integer literals and + - *
RECURSIVE IsArithmetic(_)
IsArithmetic(node) ==
    IF node.type = "NODE_LITERAL" THEN node.token.type = "TOKEN_INTEGER_LITERAL"
    ELSE IF node.type = "NODE_BINARY_EXPRESSION"
    THEN /\ node.operator \in {<<"+">>, <<"-">>, <<"*">>}
         /\ IsArithmetic(node.left)
         /\ IsArithmetic(node.right)
    ELSE FALSE

Combine(o, l, r) == IF o = <<"+">> THEN l + r ELSE IF o = <<"-">> THEN l - r ELSE l * r

\* the value of an arithmetic expression
RECURSIVE Value(_)
Value(node) ==
    IF node.type = "NODE_LITERAL" THEN node.literal.int_value
    ELSE Combine(node.operator, Value(node.left), Value(node.right))

\* the abstract machine: accumulator, secondary register, stack; ok is false
\* once it met a line it does not know or popped an empty stack
Machine(rax, rbx, stack) == [rax |-> rax, rbx |-> rbx, stack |-> stack, ok |-> TRUE]

Execute(m, line) ==
    IF ~m.ok THEN m
    ELSE IF line.text = "    mov     rax, %d" THEN [m EXCEPT !.rax = line.arg]
    ELSE IF line.text = "    push    rax" THEN [m EXCEPT !.stack = <<m.rax>> \o @]
    ELSE IF line.text = "    pop     rbx"
    THEN IF m.stack = <<>> THEN [m EXCEPT !.ok = FALSE]
         ELSE [m EXCEPT !.rbx = Head(m.stack), !.stack = Tail(@)]
    ELSE IF line.text = "    add     rax, rbx" THEN [m EXCEPT !.rax = m.rax + m.rbx]
    ELSE IF line.text = "    sub     rax, rbx" THEN [m EXCEPT !.rax = m.rax - m.rbx]
    ELSE IF line.text = "    sub     rbx, rax" THEN [m EXCEPT !.rbx = m.rbx - m.rax]
    ELSE IF line.text = "    mov     rax, rbx" THEN [m EXCEPT !.rax = m.rbx]
    ELSE IF line.text = "    imul    rax, rbx" THEN [m EXCEPT !.rax = m.rax * m.rbx]
    ELSE [m EXCEPT !.ok = FALSE]

RECURSIVE Run(_, _, _)
Run(m, lines, k) == IF k > Len(lines) THEN m ELSE Run(Execute(m, lines[k]), lines, k + 1)

\* the machine at entry: values left by earlier code
EntryMachine == Machine(5, 7, <<11>>)

\* the lines a call appended to the output
Emitted(before, after) ==
    SubSeq(after.output_file.lines, OutputLength(before) + 1, OutputLength(after))

\* C16: for every expression tree of integer literals and + - *, the
\* instructions code_generator_generate_expression emits, run on the abstract
\* machine, leave the accumulator equal to the value of the expression (left
\* minus right for -) and the stack as it was at entry
C16_ExpressionValue ==
    [][(genOp' = "generate_expression" /\ IsArithmetic(genAst) /\ gen.output_file.open) =>
          /\ genResult'.code = "CODEGEN_SUCCESS"
          /\ SubSeq(gen'.output_file.lines, 1, OutputLength(gen)) = gen.output_file.lines
          /\ LET m == Run(EntryMachine, Emitted(gen, gen'), 1) IN
             /\ m.ok
             /\ m.rax = Value(genAst)
             /\ m.stack = EntryMachine.stack]_vars

C16_Witness ==
    /\ genOp = "generate_expression"
    /\ genResult.code = "CODEGEN_SUCCESS"
    /\ genAst.type = "NODE_BINARY_EXPRESSION"
    /\ genAst.operator = <<"-">>
    /\ genAst.left.type = "NODE_LITERAL"
    /\ genAst.right.type = "NODE_BINARY_EXPRESSION"
    /\ genAst.right.operator = <<"*">>
    /\ Value(genAst) < 0
    /\ Run(EntryMachine, gen.output_file.lines, 1).rax = Value(genAst)

\* C17: code_generator_generate_expression on an Identifier or UnaryExpression
\* node returns the unsupported-node error and leaves the output, the
\* stack-offset counter and the register flags as they were
C17_UnsupportedEmitsNothing ==
    [][(genOp' = "generate_expression"
            /\ genAst.type \in {"NODE_IDENTIFIER", "NODE_UNARY_EXPRESSION"}) =>
          /\ genResult'.code = "CODEGEN_ERROR_UNSUPPORTED_NODE"
          /\ gen'.output_file = gen.output_file
          /\ gen'.stack_offset = gen.stack_offset
          /\ gen'.used_registers = gen.used_registers]_vars

C17_Witness ==
    /\ genOp = "generate_expression"
    /\ genAst.type = "NODE_IDENTIFIER"
    /\ genResult.code = "CODEGEN_ERROR_UNSUPPORTED_NODE"
    /\ gen.output_file.open
    /\ OutputLength(gen) = 2
    /\ gen.stack_offset = 8

\* the generator after the first k children were generated one after another
RECURSIVE ThroughChild(_, _, _)
ThroughChild(g, children, k) ==
    IF k = 0 THEN g
    ELSE program_child(ThroughChild(g, children, k - 1), children[k]).g

\* the result of generating child k after the children before it
ChildResult(g, children, k) ==
    program_child(ThroughChild(g, children, k - 1), children[k]).result

\* the children whose generation fails
FailingChildren(g, children) ==
    {k \in 1..Len(children) : ChildResult(g, children, k) # "CODEGEN_SUCCESS"}

\* the generator a generate or generate_program call starts its prologue with
StartOf(g, name) == IF name = "generate" THEN code_generator_set_output(g, TRUE).g ELSE g

\* C18: when generating a top-level child of a Program node fails,
\* code_generator_generate_program returns that child's error code, generates
\* nothing for the later children and emits no epilogue
C18_FailedChildStopsProgram ==
    [][(/\ genOp' \in {"generate", "generate_program"}
        /\ genAst.type = "NODE_PROGRAM"
        /\ gen'.output_file.open
        /\ StartOf(gen, genOp').output_file.open
        /\ FailingChildren(code_generator_emit_prologue(StartOf(gen, genOp')).g,
                           genAst.children) # {}) =>
          LET start == code_generator_emit_prologue(StartOf(gen, genOp')).g
              failing == FailingChildren(start, genAst.children)
              first == CHOOSE k \in failing : \A j \in failing : k <= j
              n == OutputLength(gen')
          IN /\ genResult'.code = ChildResult(start, genAst.children, first)
             /\ gen'.output_file = ThroughChild(start, genAst.children, first).output_file
             /\ gen'.stack_offset = ThroughChild(start, genAst.children, first).stack_offset
             /\ OutputText(gen', n - Len(ExpectedEpilogue) + 1, n) # ExpectedEpilogue
             /\ \A k \in 1..n : gen'.output_file.lines[k].text # "    ret"]_vars

C18_Witness ==
    /\ genOp = "generate"
    /\ genAst.type = "NODE_PROGRAM"
    /\ Len(genAst.children) = 2
    /\ genAst.children[1].type = "NODE_IDENTIFIER"
    /\ genAst.children[2].type = "NODE_VARIABLE_DECLARATION"
    /\ genResult.code = "CODEGEN_ERROR_UNSUPPORTED_NODE"
    /\ OutputLength(gen) = Len(ExpectedPrologue)

(***************************************************************************)
(* Claims about the generator's counters and flags, checked under SpecOps  *)
(* and SpecReg.                                                            *)
(***************************************************************************)
\* C19: the stack-offset counter never decreases: no public operation of the
\* code generator leaves it lower than it found it
C19_StackOffsetNeverDecreases ==
    [][gen'.stack_offset >= gen.stack_offset]_vars

\* rax through r15: the fourteen registers before the frame and stack pointer
GeneralPurpose == {r \in Registers : r < 14}

FreeRegisters(g) == {r \in GeneralPurpose : g.used_registers[r] = 0}

\* C20: after any sequence of allocate_register and free_register calls,
\* allocate returns the lowest-numbered general-purpose register whose flag is
\* clear and sets that flag alone; it never returns the frame or stack pointer
\* nor a register in use; with all fourteen in use it returns REGISTER_COUNT
\* and changes no flag
C20_FirstFitAllocation ==
    [][genOp' = "allocate_register" =>
          IF FreeRegisters(gen) = {}
          THEN /\ genResult'.reg = REGISTER_COUNT
               /\ gen'.used_registers = gen.used_registers
          ELSE /\ genResult'.reg \in FreeRegisters(gen)
               /\ \A r \in FreeRegisters(gen) : genResult'.reg <= r
               /\ gen'.used_registers[genResult'.reg] = 1
               /\ \A r \in Registers \ {genResult'.reg} :
                     gen'.used_registers[r] = gen.used_registers[r]]_vars

C20_Witness ==
    /\ genOp = "allocate_register"
    /\ genResult.reg = REGISTER_COUNT
    /\ FreeRegisters(gen) = {}
    /\ gen.used_registers[REGISTER_RBP] = 0

(***************************************************************************)
(* Further claims about the scope stack, checked under SpecSem.            *)
(***************************************************************************)
\* C23: after any sequence of enter_scope and exit_scope calls the current
\* scope is the top entry of the scope stack, the table at stack index i is
\* alive with scope level i and, for i > 0, the table at index i-1 as parent,
\* and the global table is at index 0 with no parent; the tables of the stack
\* are distinct, so the parent chain is acyclic and ends at the global table
C23_ScopeStackShape ==
    semOp # "idle" =>
        /\ analyzer.scope_stack_size >= 1
        /\ analyzer.scope_stack_size <= Len(analyzer.scope_stack)
        /\ analyzer.current_scope = analyzer.scope_stack[analyzer.scope_stack_size]
        /\ \A i \in 1..analyzer.scope_stack_size :
              LET table == tables[analyzer.scope_stack[i]] IN
              /\ table.alive
              /\ table.scope_level = i - 1
              /\ table.parent = IF i = 1 THEN NullAddr ELSE analyzer.scope_stack[i - 1]
        /\ \A i, j \in 1..analyzer.scope_stack_size :
              analyzer.scope_stack[i] = analyzer.scope_stack[j] => i = j

\* after an exit_scope at depth 0 and exits from deeper scopes, a scope was
\* entered again into a stack slot that an exit had left stale
C23_Witness ==
    /\ semOp = "enter"
    /\ analyzer.scope_stack_size = 3
    /\ Len(analyzer.scope_stack) = 4
    /\ surplus >= 1
    /\ tables[analyzer.current_scope].parent = analyzer.scope_stack[2]
    /\ tables[analyzer.current_scope].scope_level = 2

(***************************************************************************)
(* Further claims about the lexer, checked under SpecLex.                  *)
(***************************************************************************)
\* the 0-based index of the first character of the token that the next
\* lexer_next_token call returns: the first character at or after the cursor
\* that is no blank, or the cursor itself once it has left the source
TokenStart(src, L) ==
    IF L.position <= Len(src) THEN SkipBlanks(src, L.position + 1) - 1 ELSE L.position

\* the 1-based indices of the newline characters before the 0-based index i
NewlinesBefore(src, i) == {k \in 1..Len(src) : k <= i /\ src[k] = "\n"}

\* the 1-based index of the last newline before the 0-based index i, or 0
LastNewlineBefore(src, i) ==
    LET nl == NewlinesBefore(src, i) IN
    IF nl = {} THEN 0 ELSE CHOOSE k \in nl : \A j \in nl : j <= k

\* C24: every token returned by lexer_next_token carries the line and column
\* of its first character: the line is one plus the number of newlines before
\* that character, the column one plus the number of characters since the last
\* newline or the start of the source; a newline is returned as its own
\* TOKEN_NEWLINE token and leaves the cursor on the next line at column 1
C24_TokenLineColumn ==
    [][op' = "next" =>
         LET start == TokenStart(source, lexer) IN
         /\ tok'.line = 1 + Cardinality(NewlinesBefore(source, start))
         /\ tok'.column = start + 1 - LastNewlineBefore(source, start)
         /\ (start < Len(source) /\ source[start + 1] = "\n") =>
                /\ tok'.type = "TOKEN_NEWLINE"
                /\ tok'.lexeme = <<"\n">>
                /\ lexer'.line = tok'.line + 1
                /\ lexer'.column = 1]_vars

\* the identifier of the source "\n a" was returned: line 2, column 2
C24_Witness ==
    /\ op = "next"
    /\ source = <<"\n", " ", "a">>
    /\ tok.type = "TOKEN_IDENTIFIER"
    /\ tok.line = 2
    /\ tok.column = 2

\* C26: for every source and every sequence of lexer_next_token and
\* lexer_peek_token calls the cursor position is at most the index of the
\* source's terminating NUL, so no character beyond the source is read
C26_CursorWithinSource ==
    op # "idle" => lexer.position <= Len(source)

(***************************************************************************)
(* Claims about destruction, checked under SpecFree.                       *)
(***************************************************************************)
\* the positions in the history at which the token t was destroyed
TokenFrees(t) == {k \in 1..Len(freed) : freed[k].what = "token" /\ freed[k].token = t}

\* C21: every token the parser obtained from the tokenizer during parser_parse
\* is destroyed exactly once by ast_node_free on the returned node followed by
\* parser_free, for successful parses, parses that return an Error node, and
\* inputs with parentheses
C21_TokensDestroyedOnce ==
    freeOp = "parser_free" =>
        \A k \in 1..Len(obtained) : Cardinality(TokenFrees(obtained[k])) = 1

\* the children a node owns: the operands of a BinaryExpression, the operand
\* of a UnaryExpression, the initializer of a VariableDeclaration and the
\* child list of a Program node
OwnedChildren(n) ==
    IF n.type = "NODE_BINARY_EXPRESSION" THEN <<n.left, n.right>>
    ELSE IF n.type = "NODE_UNARY_EXPRESSION" THEN <<n.operand>>
    ELSE IF n.type = "NODE_VARIABLE_DECLARATION" THEN <<n.initializer>>
    ELSE IF n.type = "NODE_PROGRAM" THEN n.children
    ELSE <<>>

\* the paths of the nodes of the tree under n
RECURSIVE OwnedNodes(_, _)
OwnedNodes(n, at) ==
    IF n.type = "NULL" THEN {}
    ELSE {at} \cup UNION { OwnedNodes(OwnedChildren(n)[k], at \o <<k>>) :
                             k \in 1..Len(OwnedChildren(n)) }

IsProperPrefix(s, t) == Len(s) < Len(t) /\ SubSeq(t, 1, Len(s)) = s

\* C22: ast_node_free(root) destroys every node root owns exactly once and
\* children before their parent, so that no node of the tree stays allocated
C22_FreeDestroysTree ==
    freeOp \in {"node_free", "tree_free"} =>
        LET nodes == {k \in 1..Len(freed) : freed[k].what = "node"} IN
        /\ \A at \in OwnedNodes(freeNode, <<>>) :
              Cardinality({k \in nodes : freed[k].at = at}) = 1
        /\ \A j, k \in nodes : IsProperPrefix(freed[j].at, freed[k].at) => k < j

(***************************************************************************)
(* Further claims about the parser, checked under SpecParse.               *)
(***************************************************************************)
\* C27: whenever parser_parse has returned a node that is no Error node and
\* the error flag is clear, the parser's current token is TOKEN_EOF: no token
\* of the source is left unparsed
C27_WholeInputConsumed ==
    \A i \in DOMAIN inst :
        (inst[i].calls >= 1 /\ inst[i].node.type \notin {"NULL", "NODE_ERROR"}
            /\ ~parser_had_error(inst[i].s))
        => inst[i].s.current_token.type = "TOKEN_EOF"

(***************************************************************************)
(* Further claims about code generation, checked under SpecGen.            *)
(***************************************************************************)
\* C30: whenever code_generator_generate_expression returns an error for a
\* BinaryExpression, no instruction was emitted for that node: the output is
\* what it was before the call
C30_BinaryAllOrNothing ==
    [][(genOp' = "generate_expression" /\ genAst.type = "NODE_BINARY_EXPRESSION"
          /\ genResult'.code # "CODEGEN_SUCCESS")
       => gen'.output_file = gen.output_file]_vars

(***************************************************************************)
(* Claims about declarations and the stack, checked under SpecDecl.        *)
(***************************************************************************)
\* the lines the step appended to the output
EmittedLines ==
    SubSeq(gen'.output_file.lines, Len(gen.output_file.lines) + 1,
           Len(gen'.output_file.lines))

IsDeclarationReserve(line) == line.text = "    sub     rsp, 8"
IsPushReserve(line) == line.text = "    sub     rsp, %d"
IsStore(line) == line.text = "    mov     [rbp-%d], rax"

\* a call of generate_variable_declaration that returned success raises
\* stack_offset by 8, emits one sub rsp, 8 and, with an initializer, ends
\* with the store at the new offset
DeclarationStepReserves ==
    [][(genOp' = "generate_variable_declaration" /\ genResult'.code = "CODEGEN_SUCCESS")
       => /\ gen'.stack_offset = gen.stack_offset + 8
          /\ gen'.output_file.open
          /\ Len(gen'.output_file.lines) > Len(gen.output_file.lines)
          /\ Cardinality({ i \in DOMAIN EmittedLines :
                              IsDeclarationReserve(EmittedLines[i]) }) = 1
          /\ genAst'.initializer.type # "NULL"
                => EmittedLines[Len(EmittedLines)]
                     = Line("    mov     [rbp-%d], rax", gen'.stack_offset)]_vars

\* C25: each successful declaration raises stack_offset by 8, emits one
\* sub rsp, 8 and stores an initializer at the new offset, and the k-th
\* declaration generated since the generator was created has offset 8*k, so
\* that no two declarations have the same offset
C25_DeclarationSlots ==
    /\ DeclarationStepReserves
    /\ [](\A k \in DOMAIN slots : slots[k] = 8 * k)
    /\ [](\A j, k \in DOMAIN slots : j # k => slots[j] # slots[k])

\* C28: when generate_variable_declaration returns an error, stack_offset has
\* the value it had before the call and the call has emitted no sub rsp
C28_FailedDeclarationLeavesStack ==
    [][(genOp' = "generate_variable_declaration" /\ genResult'.code # "CODEGEN_SUCCESS")
       => /\ gen'.stack_offset = gen.stack_offset
          /\ \A i \in DOMAIN EmittedLines :
                ~IsDeclarationReserve(EmittedLines[i]) /\ ~IsPushReserve(EmittedLines[i])]_vars

\* the bytes subtracted from rsp by the first n lines of an output
RECURSIVE ReservedBytes(_, _)
ReservedBytes(lines, n) ==
    IF n = 0 THEN 0
    ELSE ReservedBytes(lines, n - 1)
         + (IF IsDeclarationReserve(lines[n]) THEN 8
            ELSE IF IsPushReserve(lines[n]) THEN lines[n].arg ELSE 0)

\* C29: in the output that a generate call leaves, every store
\* mov [rbp-k], rax has k at most the bytes subtracted from rsp by the sub rsp
\* lines before it in that output, also when the generator has made other
\* calls before
C29_StoresWithinReserved ==
    genOp = "generate"
    => \A i \in DOMAIN gen.output_file.lines :
          IsStore(gen.output_file.lines[i])
          => gen.output_file.lines[i].arg <= ReservedBytes(gen.output_file.lines, i - 1)

====
